---- MODULE Spec2Model ----
(***************************************************************************)
(* Model of the js-peer MCP server's coordination layer.                   *)
(*                                                                         *)
(* The registry (StateManager, src/src/state.ts) and the tool handlers     *)
(* (src/src/tools/node-management.ts, peer-management, messaging,          *)
(* file-sharing, monitoring) run on one JavaScript event loop.  A handler  *)
(* runs atomically from its entry to its first `await` and from one        *)
(* `await` to the next; several tool calls may be in flight at once, each  *)
(* suspended at an `await` on the networking subsystem (libp2p).           *)
(* One action of this model is one such atomic piece of a handler, or one  *)
(* step of the networking subsystem.                                       *)
(***************************************************************************)
EXTENDS Integers, FiniteSets, Sequences, TLC

\* ------------------------------------------------------------------ bounds
\* Number of tool calls issued in one behaviour.
MaxCalls == 4
\* Number of nodes the networking subsystem can construct in one behaviour.
MaxNodes == 2
\* Number of distinct connection identifiers of a node.
MaxConns == 1

\* Number of messages the registry records in one behaviour.
MaxMsgs == 2
\* Number of bytes of a message payload or of a file.
MaxBytes == 1
\* Number of remote peers.
MaxPeers == 1
\* Number of file identifiers.
MaxFiles == 1
\* Number of request frames a remote initiator writes on one stream.
MaxFrames == 2
\* Most discovery events one discover_peers call collects.
MaxEvents == 2
\* Most addresses one discovery event advertises.
MaxAddrs == 2

Calls == 1..MaxCalls
Nodes == 1..MaxNodes
Conns == 1..MaxConns

\* ServerState.libp2pNode === null (no NodeHandle stored).
Null == 0

\* Identities of remote peers (a node's own identity is its index in Nodes).
RemotePeers == {MaxNodes + p : p \in 1..MaxPeers}

\* constants.ts
CHAT_TOPIC == "universal-connectivity"
CHAT_FILE_TOPIC == "universal-connectivity-file"

\* The topics startLibp2p subscribes every node to.
DefaultTopics == {CHAT_TOPIC, CHAT_FILE_TOPIC}

\* Topic names a caller passes and a message arrives on: the default chat
\* topic and one other.
Topics == {CHAT_TOPIC, "room"}

\* Payloads: byte sequences of at most MaxBytes bytes.
ByteValues == {0, 1}
Bodies == UNION {[1..n -> ByteValues] : n \in 0..MaxBytes}

\* Message texts a caller sends and a peer publishes: the empty text and a
\* text of two bytes.
Texts == {<<>>, <<0, 0>>}

\* detail.type of a pubsub message event.
\* The value of an argument the caller left out.
Undefined == <<Null>>

\* A tool name the dispatcher routes to no handler.
UnknownTool == "no_such_tool"

MsgTypes == {"signed", "unsigned"}

\* The `limit` argument of get_message_history.
Limits == 0..(MaxMsgs + 1)

\* File identifiers (uuid strings in the code).
FileIds == 1..MaxFiles

\* sharedFiles.get(fileId) === undefined.
NoFile == [body |-> <<>>, sender |-> Null]

\* The values of ServerState.nodeStatus.
NodeStatuses == {"stopped", "starting", "running", "stopping"}

\* Tool names routed to handleNodeManagement.
LifecycleOps == {"create_libp2p_node", "start_libp2p_node", "stop_libp2p_node"}

\* One tool of each of the handlers handlePeerManagement, handleMessaging,
\* handleFileSharing and handleMonitoring: each calls the node once the
\* handler's guard has passed.
GuardedOps == {"list_connections", "get_topic_subscribers",
               "list_shared_files", "get_network_stats"}

\* Tool names routed to handleMessaging whose handlers are modelled step by step.
MessagingOps == {"send_group_message", "send_direct_message", "subscribe_to_topic",
                 "unsubscribe_from_topic", "get_message_history"}

\* Tool names routed to handleFileSharing whose handlers are modelled step by step.
FileOps == {"share_file", "request_file"}

\* How share_file is given the file: a path to read, or base64 content.
FileSources == {"filePath", "fileContent"}

\* What answers a file-exchange stream opened to a remote peer: this
\* program's stream handler, or a peer that closes the stream without writing.
RemoteKinds == {"handler", "closes"}

\* Tool names routed to handlePeerManagement whose handlers are modelled step by step.
PeerOps == {"discover_peers"}

\* The read-only tool of handleNodeManagement.
StatusOps == {"get_node_status"}

\* Two more read-only tools, of handlePeerManagement and handleMonitoring.
InfoOps == {"get_peer_info", "get_protocol_handlers"}

\* The name under which a ReadResourceRequestSchema request is kept.
ResourceRead == "resources/read"

\* The resource URIs handleResourceRead tells apart: the five fixed ones, the
\* two prefixes that are followed by a topic or a peer id, and any other.
ResourceUris == {"connections://active", "peers://discovered", "network://stats",
                 "node://info", "files://shared",
                 "messages://topic/", "messages://peer/", "other://"}

ToolNames ==
  LifecycleOps \cup GuardedOps \cup MessagingOps \cup FileOps \cup PeerOps
    \cup StatusOps \cup InfoOps

\* The two listeners create_libp2p_node installs on the node.
ConnectionEvents == {"connection:open", "connection:close"}

\* Where the code between `await startLibp2p(config)` and the return may
\* raise: in either addEventListener call, or while building the result from
\* libp2p.peerId / libp2p.getMultiaddrs().
RaisePoints == {"addEventListener:open", "addEventListener:close", "result"}

\* config.transports: the names startLibp2p looks for, which are also its
\* default when the configuration names none.
TransportNames == {"webrtc", "websockets", "webtransport"}

\* The configurations create_libp2p_node is given: no transports field, or a
\* list of names.
NoConfig == [given |-> FALSE, transports |-> {}]
Configs == {NoConfig} \cup {[given |-> TRUE, transports |-> ts] :
                              ts \in {{"webrtc"}, {"websockets"}}}

\* Addresses a discovery event can advertise, by the protocol names
\* Multiaddr.protoNames() reports for them.
Addrs == {"/webrtc", "/ws"}
protoNames(addr) ==
  IF addr = "/webrtc" THEN {"p2p-circuit", "webrtc"} ELSE {"tcp", "ws"}

\* The transport of the node that can dial the address.
TransportFor(addr) == IF addr = "/webrtc" THEN "webrtc" ELSE "websockets"

AddrLists == UNION {[1..n -> Addrs] : n \in 0..MaxAddrs}

VARIABLES
  nodeStatus,         \* StateManager.state.nodeStatus
  libp2pNode,         \* StateManager.state.libp2pNode (a node or Null)
  activeConnections,  \* StateManager.state.activeConnections (its key set)
  nodeCount,          \* subsystem: number of nodes constructed so far
  live,               \* subsystem: the nodes that are constructed and not stopped
  netConns,           \* subsystem: node -> libp2p.getConnections() (ids)
  listeners,          \* subsystem: node -> connection events with a listener
  op,                 \* call -> tool name ("" before the call is issued)
  pc,                 \* call -> where the handler is
  snapNode,           \* call -> state.libp2pNode of the handler's getState() copy
  built,              \* call -> the node startLibp2p constructed for it
  result,             \* call -> what the handler returned or threw
  retPeer,            \* call -> the peerId of a successful lifecycle result
  solo,               \* history: the lifecycle call that has run unoverlapped, or Null
  args,               \* call -> the arguments the suspended handler holds
  pending,            \* subsystem: node -> connection events emitted, not yet delivered
  messageHistory,     \* StateManager.state.messageHistory (topic -> messages)
  directMessages,     \* StateManager.state.directMessages (peer -> messages)
  subscriptions,      \* StateManager.state.subscriptions
  stats,              \* StateManager.stats (the four counters)
  msgListeners,       \* subsystem: node -> number of pubsub 'message' listeners
  netSubs,            \* subsystem: node -> topics its pubsub is subscribed to
  retMessages,        \* call -> the messages get_message_history returned
  sharedFiles,        \* StateManager.state.sharedFiles (fileId -> file or NoFile)
  handlers,           \* subsystem: the nodes with a FILE_EXCHANGE_PROTOCOL handler
  served,             \* the last inbound file-exchange stream: frames read and written
  discListeners,      \* subsystem: node -> discover_peers calls with a 'peer:discovery' listener
  collected,          \* call -> discoveredPeers of its discover_peers handler
  transports,         \* subsystem: node -> the transports it was created with
  dialing,            \* node -> the addresses dialWebRTCMaddrs has still to try
  dialLog,            \* node -> the dials of its last peer:discovery event, with outcome
  fired,              \* history: node -> the peer:discovery events it has fired
  unhandled,          \* the process has seen a promise rejection nothing handles
  snapshot,           \* the own fields of the last getState() copy handed out
  snapshotAt,         \* history: the registry's contents when that copy was made
  retStatus           \* call -> the status field get_node_status returned ("" if none)

vars == <<nodeStatus, libp2pNode, activeConnections, nodeCount, live, netConns,
          listeners, op, pc, snapNode, built, result, retPeer, solo,
          args, pending, messageHistory, directMessages, subscriptions, stats,
          msgListeners, netSubs, retMessages, sharedFiles, handlers, served,
          discListeners, collected, transports, dialing, dialLog, fired,
          unhandled,
          snapshot, snapshotAt, retStatus>>

registry == <<nodeStatus, libp2pNode, activeConnections>>
subsystem == <<nodeCount, live, netConns, listeners>>

\* The histories, subscription set and counters of the registry.
histories == <<messageHistory, directMessages, subscriptions, stats, retMessages>>

\* The registry's messaging state and the pubsub service of each node.
messaging == <<histories, msgListeners, netSubs>>

\* The shared-file catalog and the file-exchange protocol of each node.
exchange == <<sharedFiles, handlers, served>>

\* The peer-discovery part of the subsystem and of the handlers' state.
discovery == <<discListeners, collected, transports, dialing, dialLog, fired>>

\* What the process keeps outside the registry.
process == <<unhandled, snapshot, snapshotAt>>

\* What read-only tool calls reported.
reports == <<retStatus>>

later == <<discovery, process, reports>>

\* Handler positions: not issued, suspended at one of the three awaits of
\* handleNodeManagement or at an await of another handler, returned.
AwaitPcs == {"await_startLibp2p", "await_start", "await_stop",
             "await_publish", "await_send",
             "await_handle", "await_dialProtocol", "await_pipe",
             "await_timer", "await_dial", "await_peerStore"}

\* ------------------------------------------------------- registry (state.ts)

\* setNodeStatus(status): the new value of state.nodeStatus.
setNodeStatus(status) == status

\* setLibp2pNode(node): the new value of state.libp2pNode.
setLibp2pNode(node) == node

\* updateConnections(connections): clear the map, then set one entry per
\* connection id; the resulting key set.
updateConnections_m(connections) == activeConnections \cup connections
updateConnections(connections) == {} \cup connections

\* A ChatMessage (msgId and receivedAt, a fresh uuid and the clock, left out).
ChatMessage(msg, peerId, read) == [msg |-> msg, peerId |-> peerId, read |-> read]

\* addMessage / addDirectMessage: push onto the list stored under the key
\* (created empty when absent) and count one more received message.
addMessage_m(history, st, key, message) ==
  [history |-> [history EXCEPT ![key] = <<message>>],
   stats |-> [st EXCEPT !.messagesReceived = @ + 1]]
addMessage(history, st, key, message) ==
  [history |-> [history EXCEPT ![key] = Append(@, message)],
   stats |-> [st EXCEPT !.messagesReceived = @ + 1]]

\* incrementMessagesSent, addBytesSent, addBytesReceived.
incrementMessagesSent_m(st) == st
incrementMessagesSent(st) == [st EXCEPT !.messagesSent = @ + 1]
addBytesSent_m(st, bytes) == [st EXCEPT !.bytesSent = bytes]
addBytesSent(st, bytes) == [st EXCEPT !.bytesSent = @ + bytes]
addBytesReceived(st, bytes) == [st EXCEPT !.bytesReceived = @ + bytes]

\* Array.prototype.slice(start) on a list of length n: a negative start counts
\* from the end (clamped at 0), a non-negative one from the front (clamped at
\* n); -0 is 0.
slice(list, start) ==
  LET n == Len(list)
      k == IF start < 0 THEN (IF n + start > 0 THEN n + start ELSE 0)
                        ELSE (IF start < n THEN start ELSE n)
  IN SubSeq(list, k + 1, n)

\* The list slice(start) was called on, afterwards: slice returns a copy and
\* leaves the list as it was.
afterSlice_m(list, start) == SubSeq(list, 1, Len(list) - Len(slice(list, start)))
afterSlice(list, start) == list

\* getMessages(topic) / getDirectMessages(peerId): the stored list.
getMessages(history, key) == history[key]

\* Messages held by the registry, over all topics and peers.
RECURSIVE SumLen(_, _)
SumLen(f, keys) ==
  IF keys = {} THEN 0
  ELSE LET k == CHOOSE x \in keys : TRUE IN Len(f[k]) + SumLen(f, keys \ {k})
Recorded == SumLen(messageHistory, Topics) + SumLen(directMessages, RemotePeers)

\* new TextEncoder().encode(message): the bytes of the string, and no bytes
\* for an argument that was left out.
encode(message) == IF message = Undefined THEN <<>> ELSE message

\* addSubscription: subscriptions.add(topic).
addSubscription(subs, topic) == subs \cup {topic}

\* removeSubscription: subscriptions.delete(topic).
removeSubscription_m(subs, topic) == subs
removeSubscription(subs, topic) == subs \ {topic}

\* A ChatFile without its id, as stored under the id in sharedFiles.
ChatFile(body, sender) == [body |-> body, sender |-> sender]

\* addSharedFile: sharedFiles.set(file.id, file).
addSharedFile_m(files, id, file) ==
  IF files[id] = NoFile THEN [files EXCEPT ![id] = file] ELSE files
addSharedFile(files, id, file) == [files EXCEPT ![id] = file]

\* getSharedFile: sharedFiles.get(fileId).
getSharedFile(files, fileId) == IF fileId \in DOMAIN files THEN files[fileId] ELSE NoFile

\* uuidv4(): an identifier no entry of the catalog has.
FreshIds(files) == {f \in FileIds : files[f] = NoFile}

\* uint8ArrayFromString(fileId) / uint8ArrayToString(bytes).
fromString(fileId) == <<fileId>>
toString(bytes) == IF Len(bytes) = 1 THEN bytes[1] ELSE Null

\* lp.encode: every message preceded by its length.
RECURSIVE lpEncode(_)
lpEncode(msgs) ==
  IF msgs = <<>> THEN <<>>
  ELSE <<Len(Head(msgs))>> \o Head(msgs) \o lpEncode(Tail(msgs))

\* lp.decode: read a length, then that many bytes, until the bytes end.
RECURSIVE lpDecode(_)
lpDecode(bytes) ==
  IF bytes = <<>> THEN <<>>
  ELSE LET n == bytes[1]
       IN <<SubSeq(bytes, 2, n + 1)>> \o lpDecode(SubSeq(bytes, n + 2, Len(bytes)))

\* How a stream ends at the reader: both sides finished, or the writer failed.
StreamEnds == {"closed", "reset"}

\* The responder's mapper throws `File not found` inside the pipe: the sink
\* fails and the stream is aborted.
NotFoundEnd_m == "closed"
NotFoundEnd == "reset"

\* The FILE_EXCHANGE_PROTOCOL stream handler on the bytes of an inbound
\* stream: decode the request frames and answer them one by one, each with
\* the body stored under the identifier it names, until the source ends or an
\* identifier is not in the catalog.  The result is the bytes written and how
\* the stream ends.
RECURSIVE Answer(_, _)
Answer(files, requests) ==
  IF requests = <<>> THEN [written |-> <<>>, end |-> "closed"]
  ELSE LET requestedFile == getSharedFile(files, toString(Head(requests)))
       IN IF requestedFile = NoFile
            THEN [written |-> <<>>, end |-> NotFoundEnd]
            ELSE LET rest == Answer(files, Tail(requests))
                 IN [written |-> <<requestedFile.body>> \o rest.written,
                     end |-> rest.end]
StreamHandler(files, source) ==
  LET answer == Answer(files, lpDecode(source))
  IN [sink |-> lpEncode(answer.written), end |-> answer.end]

\* request_file's reader: `for await (const data of source) { fileData =
\* data.subarray(); break }` on the decoded response; fileData stays null when
\* no frame arrives.
FirstFrame(source) ==
  LET frames == lpDecode(source)
  IN IF frames = <<>> THEN [set |-> FALSE, data |-> <<>>]
                      ELSE [set |-> TRUE, data |-> Head(frames)]

\* `if (!fileData)`.
Missing_m(fileData) == ~fileData.set \/ Len(fileData.data) = 0
Missing(fileData) == ~fileData.set

\* The ChatFile request_file stores: { id: fileId, body: fileData, sender: peerId }.
ReceivedFile_m(fileData, peerId) == ChatFile(<<>>, peerId)
ReceivedFile_s(fileData, peerId) == ChatFile(fileData.data, Null)
ReceivedFile(fileData, peerId) == ChatFile(fileData.data, peerId)

\* startLibp2p: `config.transports || ['webrtc', 'websockets', 'webtransport']`.
enabledTransports(config) ==
  IF config.given THEN config.transports ELSE TransportNames

\* ------------------------------------------- guards of the tool handlers

\* create_libp2p_node: `if (state.libp2pNode) throw ...already exists`.
CreateRejected_m(node) == FALSE
CreateRejected(node) == node # Null

\* start_libp2p_node / stop_libp2p_node: `if (!state.libp2pNode) throw`.
NoNodeExists_m(node) == FALSE
NoNodeExists(node) == node = Null

\* start_libp2p_node: `if (state.nodeStatus === 'running') return` (no-op).
StartIsNoop_m(status) == FALSE
StartIsNoop(status) == status = "running"

\* handlePeerManagement / handleMessaging / handleFileSharing /
\* handleMonitoring: `if (!state.libp2pNode) throw ...No libp2p node is running`.
NoActiveNode(node, status) == node = Null

\* stop_libp2p_node after stop() resolved: `stateManager.setLibp2pNode(null)`.
HandleAfterStop_m(node) == node
HandleAfterStop(node) == setLibp2pNode(Null)

\* create_libp2p_node's catch block: `stateManager.setNodeStatus('stopped')`.
StatusAfterCreateFailure_m(status) == status
StatusAfterCreateFailure(status) == setNodeStatus("stopped")

\* stop_libp2p_node's catch block: it rethrows and leaves nodeStatus as it is.
StatusAfterStopFailure_m(status) == "stopped"
StatusAfterStopFailure(status) == status

\* ------------------------------------------------------------------- Init
Init ==
  /\ nodeStatus = "stopped"
  /\ libp2pNode = Null
  /\ activeConnections = {}
  /\ nodeCount = 0
  /\ live = {}
  /\ netConns = [n \in Nodes |-> {}]
  /\ listeners = [n \in Nodes |-> {}]
  /\ op = [c \in Calls |-> ""]
  /\ pc = [c \in Calls |-> "idle"]
  /\ snapNode = [c \in Calls |-> Null]
  /\ built = [c \in Calls |-> Null]
  /\ result = [c \in Calls |-> "none"]
  /\ retPeer = [c \in Calls |-> Null]
  /\ solo = Null
  /\ args = [c \in Calls |-> <<>>]
  /\ pending = [n \in Nodes |-> {}]
  /\ messageHistory = [t \in Topics |-> <<>>]
  /\ directMessages = [p \in RemotePeers |-> <<>>]
  /\ subscriptions = {}
  /\ stats = [messagesReceived |-> 0, messagesSent |-> 0,
              bytesReceived |-> 0, bytesSent |-> 0]
  /\ msgListeners = [n \in Nodes |-> 0]
  /\ netSubs = [n \in Nodes |-> {}]
  /\ retMessages = [c \in Calls |-> <<>>]
  /\ sharedFiles = [f \in FileIds |-> NoFile]
  /\ handlers = {}
  /\ served = [request |-> <<>>, written |-> <<>>, end |-> "none"]
  /\ discListeners = [n \in Nodes |-> {}]
  /\ collected = [c \in Calls |-> <<>>]
  /\ transports = [n \in Nodes |-> {}]
  /\ dialing = [n \in Nodes |-> [peer |-> Null, addrs |-> <<>>]]
  /\ fired = [n \in Nodes |-> <<>>]
  /\ dialLog = [n \in Nodes |-> <<>>]
  /\ unhandled = FALSE
  /\ retStatus = [c \in Calls |-> ""]
  /\ snapshot = [taken |-> FALSE, nodeStatus |-> "stopped", libp2pNode |-> Null]
  /\ snapshotAt = [nodeStatus |-> "stopped", libp2pNode |-> Null,
                   activeConnections |-> {},
                   messageHistory |-> [t \in Topics |-> <<>>],
                   directMessages |-> [p \in RemotePeers |-> <<>>],
                   sharedFiles |-> [f \in FileIds |-> NoFile],
                   subscriptions |-> {}]

\* Calls are issued in index order (the index only names the call).
NextCall(c) == pc[c] = "idle" /\ \A d \in Calls : d < c => pc[d] # "idle"

\* No tool call is suspended at an await.
Quiet == \A d \in Calls : pc[d] \notin AwaitPcs

\* History of overlap, read by the claims only: after a step of lifecycle call
\* c, solo is c if c was issued while no call was suspended and no other
\* lifecycle call has taken a step since; otherwise Null.
Track(c) ==
  solo' = IF solo = c \/ (pc[c] = "idle" /\ Quiet) THEN c ELSE Null

\* The handler of call c returns or throws r; its locals are gone.
Return(c, r, peer) ==
  /\ pc' = [pc EXCEPT ![c] = "done"]
  /\ result' = [result EXCEPT ![c] = r]
  /\ retPeer' = [retPeer EXCEPT ![c] = peer]
  /\ snapNode' = [snapNode EXCEPT ![c] = Null]
  /\ built' = [built EXCEPT ![c] = Null]

\* The handler of call c suspends at an await, holding state.libp2pNode = node.
Suspend(c, at, node) ==
  /\ pc' = [pc EXCEPT ![c] = at]
  /\ snapNode' = [snapNode EXCEPT ![c] = node]
  /\ UNCHANGED <<result, retPeer, built>>

\* ------------------------------------- handleNodeManagement: create_libp2p_node

\* Entry to `await startLibp2p(config)`.
CreateCall(c) ==
  /\ NextCall(c)
  /\ op' = [op EXCEPT ![c] = "create_libp2p_node"]
  /\ IF CreateRejected(libp2pNode)
       THEN /\ Return(c, "ErrNodeExists", Null)
            /\ UNCHANGED nodeStatus
       ELSE /\ nodeStatus' = setNodeStatus("starting")
            /\ Suspend(c, "await_startLibp2p", libp2pNode)
  /\ UNCHANGED <<libp2pNode, activeConnections, subsystem>>
  /\ Track(c)
  /\ UNCHANGED <<args, pending, messaging, exchange>>
  /\ UNCHANGED later

\* Inside startLibp2p: `await createLibp2p(...)` constructs and starts a node
\* (startLibp2p subscribes it to the default topics before it returns).  The
\* node is live in the subsystem from here on, and may open connections, while
\* the create handler is still suspended at `await startLibp2p(config)`.
Construct(c, config) ==
  /\ pc[c] = "await_startLibp2p"
  /\ built[c] = Null
  /\ nodeCount < MaxNodes
  /\ nodeCount' = nodeCount + 1
  /\ live' = live \cup {nodeCount + 1}
  /\ built' = [built EXCEPT ![c] = nodeCount + 1]
  /\ UNCHANGED <<registry, netConns, listeners, op, pc, snapNode, result, retPeer>>
  /\ Track(c)
  /\ netSubs' = [netSubs EXCEPT ![nodeCount + 1] = DefaultTopics]
  /\ UNCHANGED <<args, pending, histories, msgListeners, exchange>>
  /\ transports' = [transports EXCEPT ![nodeCount + 1] = enabledTransports(config)]
  /\ UNCHANGED <<discListeners, collected, dialing, dialLog, fired, process, reports>>

\* startLibp2p for a create_libp2p_node call that names no transports.
ConstructNode(c) == Construct(c, NoConfig)

\* startLibp2p rejects: the catch block resets the status and rethrows.
CreateFail(c) ==
  /\ pc[c] = "await_startLibp2p"
  /\ built[c] = Null
  /\ nodeStatus' = StatusAfterCreateFailure(nodeStatus)
  /\ Return(c, "ErrCreateFailed", Null)
  /\ UNCHANGED <<libp2pNode, activeConnections, subsystem, op>>
  /\ Track(c)
  /\ UNCHANGED <<args, pending, messaging, exchange>>
  /\ UNCHANGED later

\* startLibp2p resolved with built[c]: the handler stores the node, sets the
\* status, installs the two connection listeners and returns success.
CreateResume(c) ==
  /\ pc[c] = "await_startLibp2p"
  /\ built[c] # Null
  /\ libp2pNode' = setLibp2pNode(built[c])
  /\ nodeStatus' = setNodeStatus("running")
  /\ listeners' = [listeners EXCEPT ![built[c]] = @ \cup ConnectionEvents]
  /\ Return(c, "ok_created", built[c])
  /\ UNCHANGED <<activeConnections, nodeCount, live, netConns, op>>
  /\ Track(c)
  /\ UNCHANGED <<args, pending, messaging, exchange>>
  /\ UNCHANGED later

\* The listeners installed when the code raises at `at`.
InstalledBefore(at) ==
  CASE at = "addEventListener:open" -> {}
    [] at = "addEventListener:close" -> {"connection:open"}
    [] OTHER -> ConnectionEvents

\* startLibp2p resolved with built[c], and a call on the node made inside the
\* try block after the node was stored raises: the catch block resets the
\* status and rethrows.
CreateRaise(c) ==
  /\ pc[c] = "await_startLibp2p"
  /\ built[c] # Null
  /\ \E at \in RaisePoints :
       listeners' = [listeners EXCEPT ![built[c]] = @ \cup InstalledBefore(at)]
  /\ libp2pNode' = setLibp2pNode(built[c])
  /\ nodeStatus' = StatusAfterCreateFailure(nodeStatus)
  /\ Return(c, "ErrCreateFailed", Null)
  /\ UNCHANGED <<activeConnections, nodeCount, live, netConns, op>>
  /\ Track(c)
  /\ UNCHANGED <<args, pending, messaging, exchange>>
  /\ UNCHANGED later

\* -------------------------------------- handleNodeManagement: start_libp2p_node

\* Entry to `await state.libp2pNode.start()`.
StartCall(c) ==
  /\ NextCall(c)
  /\ op' = [op EXCEPT ![c] = "start_libp2p_node"]
  /\ IF NoNodeExists(libp2pNode)
       THEN Return(c, "ErrNoNode", Null)
       ELSE IF StartIsNoop(nodeStatus)
              THEN Return(c, "ok_already_running", libp2pNode)
              ELSE Suspend(c, "await_start", libp2pNode)
  /\ UNCHANGED <<registry, subsystem>>
  /\ Track(c)
  /\ UNCHANGED <<args, pending, messaging, exchange>>
  /\ UNCHANGED later

\* start() resolved: the snapshot's node runs and the status is set.
StartOk(c) ==
  /\ pc[c] = "await_start"
  /\ snapNode[c] # Null
  /\ live' = live \cup {snapNode[c]}
  /\ nodeStatus' = setNodeStatus("running")
  /\ Return(c, "ok_started", snapNode[c])
  /\ UNCHANGED <<libp2pNode, activeConnections, nodeCount, netConns, listeners, op>>
  /\ Track(c)
  /\ UNCHANGED <<args, pending, messaging, exchange>>
  /\ UNCHANGED later

\* start() rejected: rethrown, nothing else changes.
StartFail(c) ==
  /\ pc[c] = "await_start"
  /\ Return(c, "ErrStartFailed", Null)
  /\ UNCHANGED <<registry, subsystem, op>>
  /\ Track(c)
  /\ UNCHANGED <<args, pending, messaging, exchange>>
  /\ UNCHANGED later

\* --------------------------------------- handleNodeManagement: stop_libp2p_node

\* Entry to `await state.libp2pNode.stop()`.
StopCall(c) ==
  /\ NextCall(c)
  /\ op' = [op EXCEPT ![c] = "stop_libp2p_node"]
  /\ IF NoNodeExists(libp2pNode)
       THEN /\ Return(c, "ErrNoNode", Null)
            /\ UNCHANGED nodeStatus
       ELSE /\ nodeStatus' = setNodeStatus("stopping")
            /\ Suspend(c, "await_stop", libp2pNode)
  /\ UNCHANGED <<libp2pNode, activeConnections, subsystem>>
  /\ Track(c)
  /\ UNCHANGED <<args, pending, messaging, exchange>>
  /\ UNCHANGED later

\* stop() resolved: the snapshot's node has closed its connections (its
\* connection:close listener, if installed, has re-read the empty list), its
\* pubsub has stopped (it holds no subscription and dispatches no message to
\* a listener any more) and the handler clears the status and the handle.
StopOk(c) ==
  /\ pc[c] = "await_stop"
  /\ snapNode[c] # Null
  /\ live' = live \ {snapNode[c]}
  /\ netConns' = [netConns EXCEPT ![snapNode[c]] = {}]
  /\ activeConnections' =
       IF netConns[snapNode[c]] # {} /\ "connection:close" \in listeners[snapNode[c]]
         THEN updateConnections({})
         ELSE activeConnections
  /\ nodeStatus' = setNodeStatus("stopped")
  /\ libp2pNode' = HandleAfterStop(libp2pNode)
  /\ Return(c, "ok_stopped", Null)
  /\ UNCHANGED <<nodeCount, listeners, op>>
  /\ Track(c)
  /\ netSubs' = [netSubs EXCEPT ![snapNode[c]] = {}]
  /\ msgListeners' = [msgListeners EXCEPT ![snapNode[c]] = 0]
  /\ UNCHANGED <<args, pending, histories, exchange>>
  /\ UNCHANGED later

\* stop() rejected: rethrown; neither setNodeStatus nor setLibp2pNode is reached.
StopFail(c) ==
  /\ pc[c] = "await_stop"
  /\ nodeStatus' = StatusAfterStopFailure(nodeStatus)
  /\ Return(c, "ErrStopFailed", Null)
  /\ UNCHANGED <<libp2pNode, activeConnections, subsystem, op>>
  /\ Track(c)
  /\ UNCHANGED <<args, pending, messaging, exchange>>
  /\ UNCHANGED later

\* ---------------------------------------- handleNodeManagement: get_node_status

\* The status field of the result: 'stopped' when the handler's copy of the
\* state holds no node, state.nodeStatus otherwise.
reportedStatus(node, status) == IF node = Null THEN "stopped" ELSE status

\* get_node_status: no await; the result is built from the getState() copy.
GetNodeStatus(c) ==
  /\ NextCall(c)
  /\ op' = [op EXCEPT ![c] = "get_node_status"]
  /\ retStatus' = [retStatus EXCEPT ![c] = reportedStatus(libp2pNode, nodeStatus)]
  /\ Return(c, "ok_status", libp2pNode)
  /\ UNCHANGED <<registry, subsystem, solo>>
  /\ UNCHANGED <<args, pending, messaging, exchange, discovery, process>>

\* ------------------ the other handlers: guard, then a call on the stored node

GuardedCall(c, name) ==
  /\ NextCall(c)
  /\ op' = [op EXCEPT ![c] = name]
  /\ IF NoActiveNode(libp2pNode, nodeStatus)
       THEN Return(c, "ErrNoActiveNode", Null)
       ELSE Return(c, "ok", libp2pNode)
  /\ UNCHANGED <<registry, subsystem, solo>>
  /\ UNCHANGED <<args, pending, messaging, exchange>>
  /\ UNCHANGED later

\* ------------------------------------------ CallToolRequestSchema handler

\* A name in none of the five lists: `throw new Error('Unknown tool: ...')`,
\* caught by the handler's own catch and returned as an error result.
UnknownCall(c) ==
  /\ NextCall(c)
  /\ op' = [op EXCEPT ![c] = UnknownTool]
  /\ Return(c, "ErrUnknownTool", Null)
  /\ UNCHANGED args
  /\ UNCHANGED <<registry, subsystem, solo, pending, messaging, exchange, later>>

\* ----------------------------------------------------- StateManager.getState

\* The registry's fields as they are now.
RegistryNow ==
  [nodeStatus |-> nodeStatus, libp2pNode |-> libp2pNode,
   activeConnections |-> activeConnections, messageHistory |-> messageHistory,
   directMessages |-> directMessages, sharedFiles |-> sharedFiles,
   subscriptions |-> subscriptions]

\* getState(): `{ ...this.state }` makes a new object with the same property
\* values.  nodeStatus and libp2pNode are copied; the other five properties
\* are references to the registry's own Map, Set and object, which the
\* registry's methods change in place.
GetState ==
  /\ snapshot' = [taken |-> TRUE, nodeStatus |-> nodeStatus, libp2pNode |-> libp2pNode]
  /\ snapshotAt' = RegistryNow
  /\ UNCHANGED <<registry, subsystem, op, pc, snapNode, built, result, retPeer, solo,
                 args, pending, messaging, exchange, discovery, unhandled, reports>>

\* What a reader of the copy handed out last finds in its fields now.
SnapshotView ==
  [RegistryNow EXCEPT !.nodeStatus = snapshot.nodeStatus,
                      !.libp2pNode = snapshot.libp2pNode]

\* ------------------------------------------------------ the dispatch shell

\* The result of a returned call has been sent to the caller; the server keeps
\* nothing of the call.
Recycle(c) ==
  /\ pc[c] = "done"
  /\ op' = [op EXCEPT ![c] = ""]
  /\ pc' = [pc EXCEPT ![c] = "idle"]
  /\ result' = [result EXCEPT ![c] = "none"]
  /\ retPeer' = [retPeer EXCEPT ![c] = Null]
  /\ args' = [args EXCEPT ![c] = <<>>]
  /\ retMessages' = [retMessages EXCEPT ![c] = <<>>]
  /\ UNCHANGED <<registry, subsystem, snapNode, built, solo, pending,
                 messageHistory, directMessages, subscriptions, stats,
                 msgListeners, netSubs, exchange>>
  /\ collected' = [collected EXCEPT ![c] = <<>>]
  /\ retStatus' = [retStatus EXCEPT ![c] = ""]
  /\ UNCHANGED <<discListeners, transports, dialing, dialLog, fired, process>>

\* Every earlier call has returned and its result has been sent.
Ready == \A d \in Calls : pc[d] = "idle"

\* ---------------------------------------------------------- handleMessaging

\* The handler of call c returns r with nothing else to report.
Finish(c, r) ==
  /\ Return(c, r, Null)
  /\ args' = [args EXCEPT ![c] = <<>>]

\* The handler of call c suspends at an await holding its arguments.
Hold(c, at, node, a) ==
  /\ Suspend(c, at, node)
  /\ args' = [args EXCEPT ![c] = a]

\* send_group_message: entry to `await pubsub.publish(topic, messageBytes)`.
SendGroupCall(c, topic, message) ==
  /\ NextCall(c)
  /\ op' = [op EXCEPT ![c] = "send_group_message"]
  /\ IF NoActiveNode(libp2pNode, nodeStatus)
       THEN Finish(c, "ErrNoActiveNode")
       ELSE Hold(c, "await_publish", libp2pNode, <<topic, message>>)
  /\ UNCHANGED <<registry, subsystem, solo, pending, messaging, exchange>>
  /\ UNCHANGED later

\* publish resolved: the sent message is recorded in the topic's history and
\* the counters are advanced.
SendGroupOk(c) ==
  /\ pc[c] = "await_publish"
  /\ Recorded < MaxMsgs
  /\ LET topic == args[c][1]
         message == args[c][2]
         added == addMessage(messageHistory, stats, topic,
                             ChatMessage(message, snapNode[c], TRUE))
     IN /\ messageHistory' = added.history
        /\ stats' = addBytesSent(incrementMessagesSent(added.stats),
                                 Len(encode(message)))
  /\ Finish(c, "ok")
  /\ UNCHANGED <<registry, subsystem, solo, op, pending, directMessages,
                 subscriptions, msgListeners, netSubs, retMessages, exchange>>
  /\ UNCHANGED later

\* publish rejected: wrapped and rethrown, nothing recorded.
SendGroupFail(c) ==
  /\ pc[c] = "await_publish"
  /\ Finish(c, "ErrSendFailed")
  /\ UNCHANGED <<registry, subsystem, solo, op, pending, messaging, exchange>>
  /\ UNCHANGED later

\* send_direct_message: entry to `await directMessage.send(peer, message)`.
SendDirectCall(c, peerId, message) ==
  /\ NextCall(c)
  /\ op' = [op EXCEPT ![c] = "send_direct_message"]
  /\ IF NoActiveNode(libp2pNode, nodeStatus)
       THEN Finish(c, "ErrNoActiveNode")
       ELSE Hold(c, "await_send", libp2pNode, <<peerId, message>>)
  /\ UNCHANGED <<registry, subsystem, solo, pending, messaging, exchange>>
  /\ UNCHANGED later

\* send resolved with true: the message is recorded under the peer.
SendDirectOk(c) ==
  /\ pc[c] = "await_send"
  /\ Recorded < MaxMsgs
  /\ LET peerId == args[c][1]
         message == args[c][2]
         added == addMessage(directMessages, stats, peerId,
                             ChatMessage(message, snapNode[c], TRUE))
     IN /\ directMessages' = added.history
        /\ stats' = addBytesSent(incrementMessagesSent(added.stats), Len(message))
  /\ Finish(c, "ok")
  /\ UNCHANGED <<registry, subsystem, solo, op, pending, messageHistory,
                 subscriptions, msgListeners, netSubs, retMessages, exchange>>
  /\ UNCHANGED later

\* send resolved with false (returned as success: false) or rejected
\* (rethrown): nothing recorded.
SendDirectFail(c) ==
  /\ pc[c] = "await_send"
  /\ \E r \in {"ok_not_sent", "ErrSendFailed"} : Finish(c, r)
  /\ UNCHANGED <<registry, subsystem, solo, op, pending, messaging, exchange>>
  /\ UNCHANGED later

\* subscribe_to_topic (no await): subscribe the node's pubsub, record the
\* topic, and add one more 'message' listener to the node's pubsub.
SubscribeCall(c, topic) ==
  /\ NextCall(c)
  /\ libp2pNode # Null => msgListeners[libp2pNode] < MaxMsgs
  /\ op' = [op EXCEPT ![c] = "subscribe_to_topic"]
  /\ IF NoActiveNode(libp2pNode, nodeStatus)
       THEN /\ Finish(c, "ErrNoActiveNode")
            /\ UNCHANGED <<subscriptions, msgListeners, netSubs>>
       ELSE /\ netSubs' = [netSubs EXCEPT ![libp2pNode] = @ \cup {topic}]
            /\ subscriptions' = addSubscription(subscriptions, topic)
            /\ msgListeners' = [msgListeners EXCEPT ![libp2pNode] = @ + 1]
            /\ Finish(c, "ok")
  /\ UNCHANGED <<registry, subsystem, solo, pending, messageHistory,
                 directMessages, stats, retMessages, exchange>>
  /\ UNCHANGED later

\* unsubscribe_from_topic (no await): the listeners stay installed.
UnsubscribeCall(c, topic) ==
  /\ NextCall(c)
  /\ op' = [op EXCEPT ![c] = "unsubscribe_from_topic"]
  /\ IF NoActiveNode(libp2pNode, nodeStatus)
       THEN /\ Finish(c, "ErrNoActiveNode")
            /\ UNCHANGED <<subscriptions, netSubs>>
       ELSE /\ netSubs' = [netSubs EXCEPT ![libp2pNode] = @ \ {topic}]
            /\ subscriptions' = removeSubscription(subscriptions, topic)
            /\ Return(c, "ok", Null)
            /\ args' = [args EXCEPT ![c] = <<topic>>]
  /\ UNCHANGED <<registry, subsystem, solo, pending, messageHistory,
                 directMessages, stats, msgListeners, retMessages, exchange>>
  /\ UNCHANGED later

\* get_message_history (no await): `topic` given (not "") selects the topic's
\* history, else `peerId` given (not Null) the peer's, else it throws; the
\* result is getMessages(topic).slice(-limit), resp. getDirectMessages(peerId).
GetHistoryCall(c, topic, peerId, limit) ==
  /\ NextCall(c)
  /\ op' = [op EXCEPT ![c] = "get_message_history"]
  /\ IF NoActiveNode(libp2pNode, nodeStatus)
       THEN /\ Finish(c, "ErrNoActiveNode")
            /\ UNCHANGED <<retMessages, messageHistory, directMessages>>
       ELSE IF topic = "" /\ peerId = Null
         THEN /\ Finish(c, "ErrNoTopicOrPeer")
              /\ UNCHANGED <<retMessages, messageHistory, directMessages>>
         ELSE /\ retMessages' =
                   [retMessages EXCEPT ![c] =
                      IF topic # "" THEN slice(messageHistory[topic], 0 - limit)
                                    ELSE slice(directMessages[peerId], 0 - limit)]
              /\ messageHistory' =
                   IF topic # ""
                     THEN [messageHistory EXCEPT ![topic] = afterSlice(@, 0 - limit)]
                     ELSE messageHistory
              /\ directMessages' =
                   IF topic # ""
                     THEN directMessages
                     ELSE [directMessages EXCEPT ![peerId] = afterSlice(@, 0 - limit)]
              /\ Return(c, "ok", Null)
              /\ args' = [args EXCEPT ![c] = <<topic, peerId, limit>>]
  /\ UNCHANGED <<registry, subsystem, solo, pending, subscriptions, stats,
                 msgListeners, netSubs, exchange>>
  /\ UNCHANGED later

\* What the k 'message' listeners of a node do with one event, one after the
\* other: each records a signed message and counts its bytes.
RECURSIVE RunListeners(_, _, _, _, _)
RunListeners(k, history, st, topic, message) ==
  IF k = 0 THEN [history |-> history, stats |-> st]
  ELSE LET added == addMessage(history, st, topic, message)
       IN RunListeners(k - 1, added.history,
                       addBytesReceived(added.stats, Len(message.msg)),
                       topic, message)

\* The pubsub of live node n delivers a message on a topic it is subscribed
\* to: a 'message' event reaches every listener installed on it.
PubsubDeliver(n, topic, data, from, type) ==
  /\ n \in live
  /\ topic \in netSubs[n]
  /\ Recorded + msgListeners[n] <= MaxMsgs
  /\ LET ran == RunListeners(IF type = "signed" THEN msgListeners[n] ELSE 0,
                             messageHistory, stats, topic,
                             ChatMessage(data, from, FALSE))
     IN /\ messageHistory' = ran.history
        /\ stats' = ran.stats
  /\ UNCHANGED <<registry, subsystem, solo, op, pc, snapNode, built, result,
                 retPeer, args, pending, directMessages, subscriptions,
                 msgListeners, netSubs, retMessages, exchange>>
  /\ UNCHANGED later

\* ------------------------------------------- handlePeerManagement: get_peer_info

\* get_peer_info: peerIdFromString throws for a peerId that was left out;
\* otherwise the handler reads the node's connections to the peer and
\* suspends at `await libp2p.peerStore.has(peer)`.
GetPeerInfoCall(c, peerId) ==
  /\ NextCall(c)
  /\ op' = [op EXCEPT ![c] = "get_peer_info"]
  /\ IF NoActiveNode(libp2pNode, nodeStatus)
       THEN Finish(c, "ErrNoActiveNode")
       ELSE IF peerId = Null
         THEN Finish(c, "ErrPeerInfoFailed")
         ELSE Hold(c, "await_peerStore", libp2pNode, <<peerId>>)
  /\ UNCHANGED <<registry, subsystem, solo, pending, messaging, exchange>>
  /\ UNCHANGED later

\* The peer store answered or raised (the inner catch swallows it): the
\* handler returns the peer's info.
PeerInfoDone(c) ==
  /\ pc[c] = "await_peerStore"
  /\ Return(c, "ok", args[c][1])
  /\ UNCHANGED <<registry, subsystem, solo, op, args, pending, messaging, exchange>>
  /\ UNCHANGED later

\* ------------------------------------------------------ handleResourceRead

\* A resource read (no await, no guard): the fixed URIs answer from the
\* getState() copy, the node and getNetworkStats(); the message URIs return
\* the stored list of the topic or peer named after the prefix; any other
\* URI throws.
ResourceReadCall(c, uri, topic, peerId) ==
  /\ NextCall(c)
  /\ op' = [op EXCEPT ![c] = ResourceRead]
  /\ args' = [args EXCEPT ![c] = <<uri>>]
  /\ retMessages' =
       [retMessages EXCEPT ![c] =
          CASE uri = "messages://topic/" -> getMessages(messageHistory, topic)
            [] uri = "messages://peer/" -> getMessages(directMessages, peerId)
            [] OTHER -> <<>>]
  /\ retStatus' =
       [retStatus EXCEPT ![c] =
          IF uri = "node://info" THEN reportedStatus(libp2pNode, nodeStatus) ELSE ""]
  /\ IF uri = "other://"
       THEN Return(c, "ErrUnknownResource", Null)
       ELSE Return(c, "ok_resource", Null)
  /\ UNCHANGED <<registry, subsystem, solo, pending, messageHistory, directMessages,
                 subscriptions, stats, msgListeners, netSubs, exchange>>
  /\ UNCHANGED <<discovery, process>>

\* -------------------------------------------------------- handleFileSharing

\* share_file: the file is read (filePath) or decoded (fileContent, where
\* empty content is the empty string and fails the `fileContent && fileName`
\* test), stored in the catalog under a fresh id, and the handler suspends at
\* `await libp2p.handle(FILE_EXCHANGE_PROTOCOL, ...)`.
ShareCall(c, source, body) ==
  /\ NextCall(c)
  /\ FreshIds(sharedFiles) # {}
  /\ op' = [op EXCEPT ![c] = "share_file"]
  /\ IF NoActiveNode(libp2pNode, nodeStatus)
       THEN /\ Finish(c, "ErrNoActiveNode")
            /\ UNCHANGED sharedFiles
       ELSE IF source = "fileContent" /\ body = <<>>
         THEN /\ Finish(c, "ErrShareFailed")
              /\ UNCHANGED sharedFiles
         ELSE \/ /\ source = "filePath"
                 /\ Finish(c, "ErrShareFailed")
                 /\ UNCHANGED sharedFiles
              \/ LET fileId == CHOOSE f \in FreshIds(sharedFiles) :
                                  \A g \in FreshIds(sharedFiles) : f <= g
                 IN /\ sharedFiles' = addSharedFile(sharedFiles, fileId,
                                                    ChatFile(body, libp2pNode))
                    /\ Hold(c, "await_handle", libp2pNode, <<fileId, body>>)
  /\ UNCHANGED <<registry, subsystem, solo, pending, messaging, handlers, served>>
  /\ UNCHANGED later

\* handle resolved (and the announcement, if any, was published): the node
\* serves the protocol and the call returns the fileId.
ShareOk(c) ==
  /\ pc[c] = "await_handle"
  /\ handlers' = handlers \cup {snapNode[c]}
  /\ Return(c, "ok_shared", Null)
  /\ UNCHANGED <<registry, subsystem, solo, op, args, pending, messaging,
                 sharedFiles, served>>
  /\ UNCHANGED later

\* handle rejected (the subsystem may refuse a second handler for the
\* protocol), or it resolved and the announcement's publish rejected: wrapped
\* and rethrown; the file stays in the catalog.
ShareFail(c) ==
  /\ pc[c] = "await_handle"
  /\ \E registered \in BOOLEAN :
       handlers' = IF registered THEN handlers \cup {snapNode[c]} ELSE handlers
  /\ Finish(c, "ErrShareFailed")
  /\ UNCHANGED <<registry, subsystem, solo, op, pending, messaging,
                 sharedFiles, served>>
  /\ UNCHANGED later

\* request_file: entry to `await libp2p.dialProtocol(peer, FILE_EXCHANGE_PROTOCOL)`.
RequestCall(c, peerId, fileId) ==
  /\ NextCall(c)
  /\ op' = [op EXCEPT ![c] = "request_file"]
  /\ IF NoActiveNode(libp2pNode, nodeStatus)
       THEN Finish(c, "ErrNoActiveNode")
       ELSE Hold(c, "await_dialProtocol", libp2pNode, <<peerId, fileId>>)
  /\ UNCHANGED <<registry, subsystem, solo, pending, messaging, exchange>>
  /\ UNCHANGED later

\* dialProtocol rejected (peer unreachable, protocol not served): rethrown.
DialFail(c) ==
  /\ pc[c] = "await_dialProtocol"
  /\ Finish(c, "ErrDialFailed")
  /\ UNCHANGED <<registry, subsystem, solo, op, pending, messaging, exchange>>
  /\ UNCHANGED later

\* dialProtocol resolved with a stream; the handler suspends at `await
\* pipe(...)`.  The far end is this program's stream handler over a catalog
\* that holds `held` under the requested id (NoFile: it holds nothing), or a
\* peer that closes the stream without writing.
StreamOpen(c, kind, held) ==
  /\ pc[c] = "await_dialProtocol"
  /\ kind = "closes" => held = NoFile
  /\ pc' = [pc EXCEPT ![c] = "await_pipe"]
  /\ args' = [args EXCEPT ![c] = <<args[c][1], args[c][2], kind, held>>]
  /\ UNCHANGED <<registry, subsystem, solo, op, snapNode, built, result, retPeer,
                 pending, messaging, exchange>>
  /\ UNCHANGED later

\* What comes back on the stream of call c: the far end's answer to the one
\* request frame the initiator writes.
Response(c) ==
  LET fileId == args[c][2]
      remote == [f \in {fileId} |-> args[c][4]]
  IN IF args[c][3] = "handler"
       THEN StreamHandler(remote, lpEncode(<<fromString(fileId)>>))
       ELSE [sink |-> <<>>, end |-> "closed"]

\* pipe settled: the first response frame, if one arrived, is stored under
\* the requested id with the dialled peer as sender; a stream that failed
\* before a frame arrived rejects the pipe; a stream that ended without a
\* frame leaves fileData null.
PipeDone(c) ==
  /\ pc[c] = "await_pipe"
  /\ LET peerId == args[c][1]
         fileId == args[c][2]
         response == Response(c)
         fileData == FirstFrame(response.sink)
     IN IF ~fileData.set /\ response.end = "reset"
          THEN /\ Return(c, "ErrStreamFailed", Null)
               /\ UNCHANGED sharedFiles
          ELSE IF Missing(fileData)
            THEN /\ Return(c, "ErrNoFileData", Null)
                 /\ UNCHANGED sharedFiles
            ELSE /\ sharedFiles' = addSharedFile(sharedFiles, fileId,
                                                 ReceivedFile(fileData, peerId))
                 /\ Return(c, "ok_received", Null)
  /\ UNCHANGED <<registry, subsystem, solo, op, args, pending, messaging,
                 handlers, served>>
  /\ UNCHANGED later

\* A remote initiator opens a file-exchange stream to live node n, which has
\* the protocol handler registered, and writes the request frames `ids`; the
\* handler answers from the registry's catalog.
InboundStream(n, ids) ==
  /\ n \in live
  /\ n \in handlers
  /\ LET source == lpEncode([i \in 1..Len(ids) |-> fromString(ids[i])])
         out == StreamHandler(sharedFiles, source)
     IN /\ served' = [request |-> ids, written |-> lpDecode(out.sink), end |-> out.end]
        /\ unhandled' = (unhandled \/ out.end = "reset")
  /\ UNCHANGED <<registry, subsystem, solo, op, pc, snapNode, built, result,
                 retPeer, args, pending, messaging, sharedFiles, handlers>>
  /\ UNCHANGED <<discovery, snapshot, snapshotAt, reports>>

\* ------------------------------------------- handlePeerManagement: discovery

\* handlePeerDiscovery: discoveredPeers.push({ peerId, multiaddrs }).
collect_m(discoveredPeers, event) == <<event>> \o discoveredPeers
collect(discoveredPeers, event) == Append(discoveredPeers, event)

\* libp2p.removeEventListener('peer:discovery', handlePeerDiscovery).
removeEventListener_m(registered, c) == registered
removeEventListener(registered, c) == registered \ {c}

\* discover_peers: the listener is registered on the node of the handler's
\* copy and the timer is set; the handler returns the promise the timer
\* resolves.
DiscoverCall(c) ==
  /\ NextCall(c)
  /\ op' = [op EXCEPT ![c] = "discover_peers"]
  /\ IF NoActiveNode(libp2pNode, nodeStatus)
       THEN /\ Finish(c, "ErrNoActiveNode")
            /\ UNCHANGED discListeners
       ELSE /\ discListeners' = [discListeners EXCEPT ![libp2pNode] = @ \cup {c}]
            /\ Hold(c, "await_timer", libp2pNode, <<Len(fired[libp2pNode])>>)
  /\ collected' = [collected EXCEPT ![c] = <<>>]
  /\ UNCHANGED <<registry, subsystem, solo, pending, messaging, exchange,
                 transports, dialing, dialLog, fired, process, reports>>

\* The timer fires: the listener is removed and the promise resolves with
\* { success: true, discoveredPeers, count }.
TimerFire(c) ==
  /\ pc[c] = "await_timer"
  /\ discListeners' = [discListeners EXCEPT
                         ![snapNode[c]] = removeEventListener(@, c)]
  /\ Return(c, "ok_discovered", Null)
  /\ UNCHANGED <<registry, subsystem, solo, op, args, pending, messaging, exchange,
                 collected, transports, dialing, dialLog, fired, process, reports>>

\* --------------------------------------------- startLibp2p: peer:discovery

\* The peer a connection of the subsystem leads to.
remotePeer(k) == MaxNodes + ((k - 1) % MaxPeers) + 1

\* libp2p.getConnections(id)?.length > 0.
Connected(n, id) == \E k \in netConns[n] : remotePeer(k) = id

\* dialWebRTCMaddrs: multiaddrs.filter(maddr => maddr.protoNames().includes('webrtc')).
webRTCMadrs(multiaddrs) == SelectSeq(multiaddrs, LAMBDA maddr : "webrtc" \in protoNames(maddr))

\* dialWebRTCMaddrs's loop after a dial settled: `return` after the first dial
\* that resolved, the next address after one that threw.
afterDial_m(addrs, ok) == Tail(addrs)
afterDial(addrs, ok) == IF ok THEN <<>> ELSE Tail(addrs)

\* Live node n fires peer:discovery for peer id with addresses multiaddrs.
\* Every listener runs: each discover_peers listener on the node collects the
\* event; the adapter's listener returns if the peer has a connection and
\* otherwise starts dialWebRTCMaddrs, which runs up to its first `await
\* libp2p.dial(addr)`.
PeerDiscovery(n, id, multiaddrs) ==
  /\ n \in live
  /\ dialing[n].addrs = <<>>
  /\ Len(fired[n]) < MaxEvents
  /\ LET event == [peerId |-> id, multiaddrs |-> multiaddrs]
     IN /\ fired' = [fired EXCEPT ![n] = Append(@, event)]
        /\ collected' = [c \in Calls |->
                           IF c \in discListeners[n] THEN collect(collected[c], event)
                                                     ELSE collected[c]]
  /\ dialing' = [dialing EXCEPT ![n] =
                   [peer |-> id,
                    addrs |-> IF Connected(n, id) THEN <<>> ELSE webRTCMadrs(multiaddrs)]]
  /\ dialLog' = [dialLog EXCEPT ![n] = <<>>]
  /\ UNCHANGED <<registry, subsystem, op, pc, snapNode, built, result, retPeer, solo,
                 args, pending, messaging, exchange, discListeners, transports, process, reports>>

\* The dial dialWebRTCMaddrs awaits settles.  It can resolve only on a live
\* node that has the transport of the address; the subsystem then has a
\* connection to the peer and emits connection:open, and the loop returns.  A
\* rejection is caught and the loop goes on to the next address.
DialSettle(n, ok) ==
  /\ dialing[n].addrs # <<>>
  /\ LET addr == Head(dialing[n].addrs)
         fresh == {k \in Conns \ netConns[n] : remotePeer(k) = dialing[n].peer}
     IN /\ ok => n \in live /\ TransportFor(addr) \in transports[n]
        /\ dialLog' = [dialLog EXCEPT ![n] = Append(@, [addr |-> addr, ok |-> ok])]
        /\ dialing' = [dialing EXCEPT ![n].addrs = afterDial(@, ok)]
        /\ IF ok /\ fresh # {}
             THEN LET k == CHOOSE j \in fresh : \A i \in fresh : j <= i
                  IN /\ netConns' = [netConns EXCEPT ![n] = @ \cup {k}]
                     /\ pending' = [pending EXCEPT ![n] = @ \cup {<<"connection:open", k>>}]
             ELSE UNCHANGED <<netConns, pending>>
  /\ UNCHANGED <<registry, nodeCount, live, listeners, op, pc, snapNode, built, result,
                 retPeer, solo, args, messaging, exchange, discListeners, collected,
                 transports, fired, process, reports>>

\* --------------------------------------------------- networking subsystem

\* The handler a node runs for a connection event, when one is installed:
\* stateManager.updateConnections(libp2p.getConnections()).
Dispatch(n, event, conns) ==
  IF event \in listeners[n] THEN updateConnections(conns) ELSE activeConnections

\* A live node opens a connection and emits connection:open.
ConnectionOpen(n, k) ==
  /\ n \in live
  /\ k \notin netConns[n]
  /\ netConns' = [netConns EXCEPT ![n] = @ \cup {k}]
  /\ activeConnections' = Dispatch(n, "connection:open", netConns[n] \cup {k})
  /\ UNCHANGED <<nodeStatus, libp2pNode, nodeCount, live, listeners,
                 op, pc, snapNode, built, result, retPeer, solo>>
  /\ UNCHANGED <<args, pending, messaging, exchange>>
  /\ UNCHANGED later

\* A live node loses a connection and emits connection:close.
ConnectionClose(n, k) ==
  /\ n \in live
  /\ k \in netConns[n]
  /\ netConns' = [netConns EXCEPT ![n] = @ \ {k}]
  /\ activeConnections' = Dispatch(n, "connection:close", netConns[n] \ {k})
  /\ UNCHANGED <<nodeStatus, libp2pNode, nodeCount, live, listeners,
                 op, pc, snapNode, built, result, retPeer, solo>>
  /\ UNCHANGED <<args, pending, messaging, exchange>>
  /\ UNCHANGED later

\* The subsystem emits its connection events through the node's event target;
\* when a listener runs relative to later changes of the connection list is the
\* subsystem's choice.  A live node opens a connection and emits
\* connection:open, to be delivered later.
EmitOpen(n, k) ==
  /\ n \in live
  /\ k \notin netConns[n]
  /\ <<"connection:open", k>> \notin pending[n]
  /\ netConns' = [netConns EXCEPT ![n] = @ \cup {k}]
  /\ pending' = [pending EXCEPT ![n] = @ \cup {<<"connection:open", k>>}]
  /\ UNCHANGED <<registry, nodeCount, live, listeners,
                 op, pc, snapNode, built, result, retPeer, solo>>
  /\ UNCHANGED <<args, messaging, exchange>>
  /\ UNCHANGED later

\* A live node loses a connection and emits connection:close.
EmitClose(n, k) ==
  /\ n \in live
  /\ k \in netConns[n]
  /\ <<"connection:close", k>> \notin pending[n]
  /\ netConns' = [netConns EXCEPT ![n] = @ \ {k}]
  /\ pending' = [pending EXCEPT ![n] = @ \cup {<<"connection:close", k>>}]
  /\ UNCHANGED <<registry, nodeCount, live, listeners,
                 op, pc, snapNode, built, result, retPeer, solo>>
  /\ UNCHANGED <<args, messaging, exchange>>
  /\ UNCHANGED later

\* One emitted event of node n reaches the listeners, in any order: the
\* listener ignores the event and re-reads libp2p.getConnections().
DeliverEvent(n, ev) ==
  /\ ev \in pending[n]
  /\ pending' = [pending EXCEPT ![n] = @ \ {ev}]
  /\ activeConnections' = Dispatch(n, ev[1], netConns[n])
  /\ UNCHANGED <<nodeStatus, libp2pNode, subsystem,
                 op, pc, snapNode, built, result, retPeer, solo>>
  /\ UNCHANGED <<args, messaging, exchange>>
  /\ UNCHANGED later

\* ------------------------------------------------------------------- Next

\* The lifecycle commands and the subsystem's answers to them.
LifecycleNext ==
  \/ \E c \in Calls : CreateCall(c)
  \/ \E c \in Calls : ConstructNode(c)
  \/ \E c \in Calls : CreateFail(c)
  \/ \E c \in Calls : CreateResume(c)
  \/ \E c \in Calls : StartCall(c)
  \/ \E c \in Calls : StartOk(c)
  \/ \E c \in Calls : StartFail(c)
  \/ \E c \in Calls : StopCall(c)
  \/ \E c \in Calls : StopOk(c)
  \/ \E c \in Calls : StopFail(c)

Next ==
  \/ LifecycleNext
  \/ \E c \in Calls, name \in GuardedOps : GuardedCall(c, name)
  \/ \E n \in Nodes, k \in Conns : ConnectionOpen(n, k)
  \/ \E n \in Nodes, k \in Conns : ConnectionClose(n, k)

\* Every tool call and every network event, in any interleaving; the calls
\* create_libp2p_node makes on a node it has just been given do not raise.
Spec == Init /\ [][Next]_vars

LifecycleFaultNext ==
  \/ LifecycleNext
  \/ \E c \in Calls : CreateRaise(c)

\* The lifecycle commands alone, in any interleaving, every call they make on
\* the subsystem being free to raise.
SpecLifecycle == Init /\ [][LifecycleFaultNext]_vars

\* `await startLibp2p(config)` of call c makes a step towards settling.
Settles(c) ==
  ConstructNode(c) \/ CreateFail(c) \/ CreateResume(c) \/ CreateRaise(c)

\* At most one tool call is suspended at an await, and the result of every
\* call that returned has been sent.
OneInFlight ==
  /\ \A d, e \in Calls : pc[d] \in AwaitPcs /\ pc[e] \in AwaitPcs => d = e
  /\ \A d \in Calls : pc[d] # "done"

StartingNext ==
  \/ \E c \in Calls : OneInFlight /\ CreateCall(c)
  \/ \E c \in Calls : OneInFlight /\ StartCall(c)
  \/ \E c \in Calls : OneInFlight /\ StopCall(c)
  \/ \E c \in Calls : ConstructNode(c)
  \/ \E c \in Calls : CreateFail(c)
  \/ \E c \in Calls : CreateResume(c)
  \/ \E c \in Calls : CreateRaise(c)
  \/ \E c \in Calls : StartOk(c)
  \/ \E c \in Calls : StartFail(c)
  \/ \E c \in Calls : StopOk(c)
  \/ \E c \in Calls : StopFail(c)
  \/ \E c \in Calls : Recycle(c)

\* The lifecycle commands of a caller that issues a second call while the
\* first is still in flight, every call on the subsystem being free to raise.
\* Every startLibp2p call settles in the end; start() and stop() may stay
\* pending for ever.
SpecStarting ==
  Init /\ [][StartingNext]_vars /\ \A c \in Calls : WF_vars(Settles(c))

StatusNext ==
  \/ \E c \in Calls : Ready /\ CreateCall(c)
  \/ \E c \in Calls : Ready /\ StartCall(c)
  \/ \E c \in Calls : Ready /\ StopCall(c)
  \/ \E c \in Calls : OneInFlight /\ GetNodeStatus(c)
  \/ \E c \in Calls : ConstructNode(c)
  \/ \E c \in Calls : CreateFail(c)
  \/ \E c \in Calls : CreateResume(c)
  \/ \E c \in Calls : CreateRaise(c)
  \/ \E c \in Calls : StartOk(c)
  \/ \E c \in Calls : StartFail(c)
  \/ \E c \in Calls : StopOk(c)
  \/ \E c \in Calls : StopFail(c)
  \/ \E c \in Calls : Recycle(c)

\* The lifecycle commands, one at a time, of a caller that asks for the
\* node's status at any moment, also while a lifecycle command is in flight;
\* every call on the subsystem is free to raise.
SpecStatus == Init /\ [][StatusNext]_vars

SerialNext ==
  \/ \E c \in Calls : Quiet /\ CreateCall(c)
  \/ \E c \in Calls : Quiet /\ StartCall(c)
  \/ \E c \in Calls : Quiet /\ StopCall(c)
  \/ \E c \in Calls, name \in GuardedOps : Quiet /\ GuardedCall(c, name)
  \/ \E c \in Calls : ConstructNode(c)
  \/ \E c \in Calls : CreateFail(c)
  \/ \E c \in Calls : CreateResume(c)
  \/ \E c \in Calls : StartOk(c)
  \/ \E c \in Calls : StartFail(c)
  \/ \E c \in Calls : StopOk(c)
  \/ \E c \in Calls : StopFail(c)
  \/ \E n \in Nodes, k \in Conns : ConnectionOpen(n, k)
  \/ \E n \in Nodes, k \in Conns : ConnectionClose(n, k)

\* As Spec, for a caller that issues one tool call at a time: a call begins
\* only when every earlier call has returned.
SpecSerial == Init /\ [][SerialNext]_vars

ConnEvents == ConnectionEvents \X Conns

AdapterNext ==
  \/ \E c \in Calls : Quiet /\ CreateCall(c)
  \/ \E c \in Calls : ConstructNode(c)
  \/ \E c \in Calls : CreateResume(c)
  \/ \E c \in Calls : Quiet /\ StopCall(c)
  \/ \E c \in Calls : StopOk(c)
  \/ \E n \in Nodes, k \in Conns : EmitOpen(n, k)
  \/ \E n \in Nodes, k \in Conns : EmitClose(n, k)
  \/ \E n \in Nodes, ev \in ConnEvents : DeliverEvent(n, ev)

\* Nodes created and stopped by a caller that issues one call at a time, their
\* connection events delivered to the listeners in any order.
SpecAdapter == Init /\ [][AdapterNext]_vars

MessagingNext ==
  \/ \E c \in Calls : Ready /\ CreateCall(c)
  \/ \E c \in Calls : ConstructNode(c)
  \/ \E c \in Calls : CreateResume(c)
  \/ \E c \in Calls : Ready /\ StopCall(c)
  \/ \E c \in Calls : StopOk(c)
  \/ \E c \in Calls, t \in Topics, m \in Texts : Ready /\ SendGroupCall(c, t, m)
  \/ \E c \in Calls : SendGroupOk(c)
  \/ \E c \in Calls : SendGroupFail(c)
  \/ \E c \in Calls, p \in RemotePeers, m \in Texts : Ready /\ SendDirectCall(c, p, m)
  \/ \E c \in Calls : SendDirectOk(c)
  \/ \E c \in Calls : SendDirectFail(c)
  \/ \E c \in Calls, t \in Topics : Ready /\ SubscribeCall(c, t)
  \/ \E c \in Calls, t \in Topics : Ready /\ UnsubscribeCall(c, t)
  \/ \E c \in Calls, t \in Topics \cup {""}, p \in RemotePeers \cup {Null}, l \in Limits :
        Ready /\ GetHistoryCall(c, t, p, l)
  \/ \E n \in Nodes, t \in Topics, m \in Texts, p \in RemotePeers, ty \in MsgTypes :
        PubsubDeliver(n, t, m, p, ty)
  \/ \E c \in Calls : Recycle(c)

\* The messaging commands of a caller that issues a call when the result of
\* the one before has been sent, nodes created and stopped in between, and
\* pubsub messages arriving at any moment.
SpecMessaging == Init /\ [][MessagingNext]_vars

\* The peer whose published messages reach the node in SpecHistory.
Publisher == MaxNodes + 1

HistoryNext ==
  \/ \E c \in Calls : Ready /\ CreateCall(c)
  \/ \E c \in Calls : ConstructNode(c)
  \/ \E c \in Calls : CreateResume(c)
  \/ \E c \in Calls : Ready /\ StopCall(c)
  \/ \E c \in Calls : StopOk(c)
  \/ \E c \in Calls, m \in Texts : Ready /\ SendGroupCall(c, CHAT_TOPIC, m)
  \/ \E c \in Calls : SendGroupOk(c)
  \/ \E c \in Calls, p \in RemotePeers, m \in Texts : Ready /\ SendDirectCall(c, p, m)
  \/ \E c \in Calls : SendDirectOk(c)
  \/ \E c \in Calls : Ready /\ SubscribeCall(c, "room")
  \/ \E c \in Calls : Ready /\ UnsubscribeCall(c, "room")
  \/ \E n \in Nodes, t \in Topics, m \in Texts, ty \in MsgTypes :
        PubsubDeliver(n, t, m, Publisher, ty)
  \/ \E c \in Calls : Recycle(c)

\* Everything that writes a history or a counter, for a caller that sends its
\* group messages on the default topic and subscribes to and unsubscribes from
\* the other topic, with one peer publishing; every send succeeds.
SpecHistory == Init /\ [][HistoryNext]_vars

\* What the catalog of remote peer p can hold under an id: a file p shared.
RemoteFiles(p) == {ChatFile(b, p) : b \in Bodies}

\* The identifiers a remote initiator can ask for: those the catalog can
\* hold, and one that no command of this server ever creates.
RequestIds == FileIds \cup {MaxFiles + 1}

\* The request frames a remote initiator writes on one stream.
RequestFrames == UNION {[1..n -> RequestIds] : n \in 1..MaxFrames}

FilesNext ==
  \/ \E c \in Calls : Ready /\ CreateCall(c)
  \/ \E c \in Calls : ConstructNode(c)
  \/ \E c \in Calls : CreateResume(c)
  \/ \E c \in Calls : Ready /\ StopCall(c)
  \/ \E c \in Calls : StopOk(c)
  \/ \E c \in Calls, src \in FileSources, b \in Bodies : Ready /\ ShareCall(c, src, b)
  \/ \E c \in Calls : ShareOk(c)
  \/ \E c \in Calls : ShareFail(c)
  \/ \E c \in Calls, p \in RemotePeers, f \in FileIds : Ready /\ RequestCall(c, p, f)
  \/ \E c \in Calls : DialFail(c)
  \/ \E c \in Calls, k \in RemoteKinds, p \in RemotePeers :
       \E h \in RemoteFiles(p) \cup {NoFile} :
         pc[c] = "await_dialProtocol" /\ p = args[c][1] /\ StreamOpen(c, k, h)
  \/ \E c \in Calls : PipeDone(c)
  \/ \E n \in Nodes, ids \in RequestFrames : InboundStream(n, ids)
  \/ \E c \in Calls : Recycle(c)

\* The file-sharing commands of a caller that issues a call when the result of
\* the one before has been sent, nodes created and stopped in between, and
\* remote initiators opening streams at any moment.
SpecFiles == Init /\ [][FilesNext]_vars

ExchangeNext ==
  \/ \E c \in Calls : Ready /\ CreateCall(c)
  \/ \E c \in Calls : ConstructNode(c)
  \/ \E c \in Calls : CreateResume(c)
  \/ \E c \in Calls, src \in FileSources, b \in Bodies : Ready /\ ShareCall(c, src, b)
  \/ \E c \in Calls : ShareOk(c)
  \/ \E c \in Calls : ShareFail(c)
  \/ \E c \in Calls, p \in RemotePeers, f \in FileIds : Ready /\ RequestCall(c, p, f)
  \/ \E c \in Calls : DialFail(c)
  \/ \E c \in Calls, k \in RemoteKinds, p \in RemotePeers :
       \E h \in RemoteFiles(p) \cup {NoFile} :
         pc[c] = "await_dialProtocol" /\ p = args[c][1] /\ StreamOpen(c, k, h)
  \/ \E c \in Calls : PipeDone(c)
  \/ \E n \in Nodes, f \in RequestIds : InboundStream(n, <<f>>)
  \/ \E c \in Calls : Recycle(c)

\* File exchange on the one node of a server's life, between this program and
\* peers that follow the protocol: every initiator writes one request frame.
SpecExchange == Init /\ [][ExchangeNext]_vars

OverlapNext ==
  \/ \E c \in Calls : Ready /\ CreateCall(c)
  \/ \E c \in Calls : ConstructNode(c)
  \/ \E c \in Calls : CreateResume(c)
  \/ \E c \in Calls, p \in RemotePeers, f \in FileIds :
       OneInFlight /\ libp2pNode # Null /\ RequestCall(c, p, f)
  \/ \E c \in Calls, k \in RemoteKinds, p \in RemotePeers :
       \E h \in RemoteFiles(p) \cup {NoFile} :
         pc[c] = "await_dialProtocol" /\ p = args[c][1] /\ StreamOpen(c, k, h)
  \/ \E c \in Calls : PipeDone(c)
  \/ \E c \in Calls : Recycle(c)

\* request_file calls of a caller that issues a second call while the first is
\* still in flight, on the one node of a server's life.
SpecOverlap == Init /\ [][OverlapNext]_vars

SendNext ==
  \/ \E c \in Calls : Ready /\ CreateCall(c)
  \/ \E c \in Calls : ConstructNode(c)
  \/ \E c \in Calls : CreateResume(c)
  \/ \E c \in Calls, t \in Topics, m \in Texts : Ready /\ SendGroupCall(c, t, m)
  \/ \E c \in Calls : SendGroupOk(c)
  \/ \E c \in Calls : SendGroupFail(c)
  \/ \E c \in Calls, p \in RemotePeers, m \in Texts : Ready /\ SendDirectCall(c, p, m)
  \/ \E c \in Calls : SendDirectOk(c)
  \/ \E c \in Calls : SendDirectFail(c)
  \/ \E c \in Calls : Recycle(c)

\* The two send commands on the one node of a server's life, each send free
\* to succeed or to fail in the subsystem.
SpecSend == Init /\ [][SendNext]_vars

ReadsNext ==
  \/ \E c \in Calls : Ready /\ CreateCall(c)
  \/ \E c \in Calls : ConstructNode(c)
  \/ \E c \in Calls : CreateResume(c)
  \/ \E c \in Calls, m \in Texts : Ready /\ SendGroupCall(c, CHAT_TOPIC, m)
  \/ \E c \in Calls : SendGroupOk(c)
  \/ \E c \in Calls : Ready /\ GetNodeStatus(c)
  \/ \E c \in Calls, name \in GuardedOps \cup {"get_protocol_handlers"} :
        Ready /\ GuardedCall(c, name)
  \/ \E c \in Calls, p \in RemotePeers \cup {Null} : Ready /\ GetPeerInfoCall(c, p)
  \/ \E c \in Calls : PeerInfoDone(c)
  \/ \E c \in Calls, t \in {CHAT_TOPIC, ""}, p \in {Publisher, Null}, l \in Limits :
        Ready /\ GetHistoryCall(c, t, p, l)
  \/ \E c \in Calls, uri \in ResourceUris :
        Ready /\ ResourceReadCall(c, uri, CHAT_TOPIC, Publisher)
  \/ \E c \in Calls : Recycle(c)

\* The read-only tools and the resource reads, before and after the one node
\* of a server's life is created and while it sends group messages.
SpecReads == Init /\ [][ReadsNext]_vars

\* Address lists that start no dial: no address, or one that is not webrtc.
UndialledLists == {<<>>, <<"/ws">>}

DiscoveryNext ==
  \/ \E c \in Calls : Ready /\ CreateCall(c)
  \/ \E c \in Calls : ConstructNode(c)
  \/ \E c \in Calls : CreateResume(c)
  \/ \E c \in Calls : OneInFlight /\ DiscoverCall(c)
  \/ \E c \in Calls : TimerFire(c)
  \/ \E n \in Nodes, id \in RemotePeers, as \in UndialledLists : PeerDiscovery(n, id, as)
  \/ \E c \in Calls : Recycle(c)

\* discover_peers calls, one or two at a time, on the one node of a server's
\* life, with discovery events fired at any moment.  Every timer that was set
\* fires.
SpecDiscovery ==
  Init /\ [][DiscoveryNext]_vars /\ \A c \in Calls : WF_vars(TimerFire(c))

TopicsNext ==
  \/ \E c \in Calls : Ready /\ CreateCall(c)
  \/ \E c \in Calls : ConstructNode(c)
  \/ \E c \in Calls : CreateResume(c)
  \/ \E c \in Calls, t \in Topics : Ready /\ SubscribeCall(c, t)
  \/ \E c \in Calls, t \in Topics : Ready /\ UnsubscribeCall(c, t)
  \/ \E c \in Calls : Ready /\ GuardedCall(c, "get_topic_subscribers")
  \/ \E n \in Nodes, t \in Topics, m \in Texts :
        PubsubDeliver(n, t, m, Publisher, "signed")
  \/ \E c \in Calls : Recycle(c)

\* Subscribing, unsubscribing and asking for a topic's subscribers on the one
\* node of a server's life, with one peer publishing signed messages.
SpecTopics == Init /\ [][TopicsNext]_vars

SnapshotNext ==
  \/ \E c \in Calls : Ready /\ CreateCall(c)
  \/ \E c \in Calls : ConstructNode(c)
  \/ \E c \in Calls : CreateResume(c)
  \/ \E c \in Calls : Ready /\ StopCall(c)
  \/ \E c \in Calls : StopOk(c)
  \/ \E c \in Calls, t \in Topics : Ready /\ SubscribeCall(c, t)
  \/ \E c \in Calls, t \in Topics : Ready /\ UnsubscribeCall(c, t)
  \/ \E n \in Nodes, t \in Topics, m \in Texts :
        PubsubDeliver(n, t, m, Publisher, "signed")
  \/ GetState
  \/ \E c \in Calls : Recycle(c)

\* Copies of the registry handed out by getState() between commands and
\* events that change the registry.
SpecSnapshot == Init /\ [][SnapshotNext]_vars

ArgumentsNext ==
  \/ \E c \in Calls : Ready /\ CreateCall(c)
  \/ \E c \in Calls : ConstructNode(c)
  \/ \E c \in Calls : CreateResume(c)
  \/ \E c \in Calls : Ready /\ UnknownCall(c)
  \/ \E c \in Calls, t \in Topics, m \in Texts \cup {Undefined} :
        Ready /\ SendGroupCall(c, t, m)
  \/ \E c \in Calls : SendGroupOk(c)
  \/ \E c \in Calls : SendGroupFail(c)
  \/ \E c \in Calls : Recycle(c)

\* Calls with a name the dispatcher does not know, and send_group_message
\* calls with and without their required message, on the one node of a
\* server's life.
SpecArguments == Init /\ [][ArgumentsNext]_vars

DialNext ==
  \/ \E c \in Calls : Ready /\ CreateCall(c)
  \/ \E c \in Calls, cfg \in Configs : Construct(c, cfg)
  \/ \E c \in Calls : CreateResume(c)
  \/ \E n \in Nodes, id \in RemotePeers, as \in AddrLists : PeerDiscovery(n, id, as)
  \/ \E n \in Nodes, ok \in BOOLEAN : DialSettle(n, ok)
  \/ \E n \in Nodes, ev \in ConnEvents : DeliverEvent(n, ev)
  \/ \E c \in Calls : Recycle(c)

\* The adapter's discovery dial on the one node of a server's life, created
\* with any of the transport configurations.
SpecDial == Init /\ [][DialNext]_vars

BestEffortNext ==
  \/ \E c \in Calls : Ready /\ CreateCall(c)
  \/ \E c \in Calls : ConstructNode(c)
  \/ \E c \in Calls : CreateResume(c)
  \/ \E n \in Nodes, as \in AddrLists : PeerDiscovery(n, Publisher, as)
  \/ \E n \in Nodes, ok \in BOOLEAN : DialSettle(n, ok)
  \/ \E n \in Nodes, ev \in ConnEvents : DeliverEvent(n, ev)
  \/ \E c \in Calls : Recycle(c)

\* The adapter's discovery dial on the one node of a server's life, created
\* with the default transports, with one peer discovered again and again.
SpecBestEffort == Init /\ [][BestEffortNext]_vars

TypeOK ==
  /\ nodeStatus \in NodeStatuses
  /\ libp2pNode \in Nodes \cup {Null}
  /\ activeConnections \subseteq Conns
  /\ nodeCount \in 0..MaxNodes
  /\ live \subseteq Nodes
  /\ \A n \in Nodes : netConns[n] \subseteq Conns /\ listeners[n] \subseteq ConnectionEvents
  /\ \A c \in Calls : /\ op[c] \in ToolNames \cup {"", UnknownTool, ResourceRead}
                      /\ pc[c] \in AwaitPcs \cup {"idle", "done"}
                      /\ snapNode[c] \in Nodes \cup {Null}
                      /\ built[c] \in Nodes \cup {Null}
  /\ solo \in Calls \cup {Null}
  /\ \A n \in Nodes : pending[n] \subseteq ConnEvents
  /\ \A t \in Topics : Len(messageHistory[t]) <= MaxMsgs
  /\ \A p \in RemotePeers : Len(directMessages[p]) <= MaxMsgs
  /\ subscriptions \subseteq Topics
  /\ \A n \in Nodes : msgListeners[n] \in 0..MaxMsgs /\ netSubs[n] \subseteq Topics \cup DefaultTopics
  /\ \A c \in Calls : Len(retMessages[c]) <= MaxMsgs
  /\ \A f \in FileIds : sharedFiles[f].body \in Bodies
                         /\ sharedFiles[f].sender \in Nodes \cup RemotePeers \cup {Null}
  /\ handlers \subseteq Nodes
  /\ \A n \in Nodes : /\ discListeners[n] \subseteq Calls
                      /\ transports[n] \subseteq TransportNames
                      /\ dialing[n].peer \in RemotePeers \cup {Null}
                      /\ Len(dialing[n].addrs) <= MaxAddrs
                      /\ Len(dialLog[n]) <= MaxAddrs
                      /\ Len(fired[n]) <= MaxEvents
  /\ \A c \in Calls : Len(collected[c]) <= MaxEvents
  /\ unhandled \in BOOLEAN
  /\ \A c \in Calls : retStatus[c] \in NodeStatuses \cup {""}
  /\ snapshot.taken \in BOOLEAN
  /\ snapshot.nodeStatus \in NodeStatuses
  /\ snapshot.libp2pNode \in Nodes \cup {Null}
  /\ snapshotAt.nodeStatus \in NodeStatuses
  /\ served.end \in StreamEnds \cup {"none"}
  /\ Len(served.written) <= Len(served.request)

\* ----------------------------------------------------------------- claims

\* Call c is issued in this step.
Begins(c) == pc[c] = "idle" /\ pc'[c] # "idle"

\* Call c is issued in this step and its handler calls the networking
\* subsystem: it suspends there, or returns what the node answered.
CallsSubsystem(c) == Begins(c) /\ (pc'[c] \in AwaitPcs \/ result'[c] = "ok")

\* Some lifecycle command is suspended in the networking subsystem.
LifecycleSuspended == \E d \in Calls : pc[d] \in AwaitPcs

\* C1: while a lifecycle command is suspended in the subsystem with the phase
\* at Starting or Stopping, a create/start/stop call that begins is excluded:
\* it makes no subsystem call and changes neither the phase nor the handle.
C1_LifecycleExclusion ==
  [][\A c \in Calls :
       (/\ Begins(c)
        /\ op'[c] \in LifecycleOps
        /\ LifecycleSuspended
        /\ nodeStatus \in {"starting", "stopping"})
       => (/\ ~CallsSubsystem(c)
           /\ nodeStatus' = nodeStatus
           /\ libp2pNode' = libp2pNode)]_vars

\* C2: at most one node is constructed and live at a time, and a stored
\* NodeHandle is never overwritten by another node.
C2_SingleNodeHandle ==
  [][/\ Cardinality(live') <= 1
     /\ (libp2pNode # Null /\ libp2pNode' # Null => libp2pNode' = libp2pNode)]_vars

\* C3: create_libp2p_node invoked while a NodeHandle is stored fails at once
\* with the node-already-exists error, constructs nothing, and leaves the
\* phase and the stored handle unchanged.
C3_CreateWhileNodeExists ==
  [][\A c \in Calls :
       (Begins(c) /\ op'[c] = "create_libp2p_node" /\ libp2pNode # Null)
       => (/\ pc'[c] = "done"
           /\ result'[c] = "ErrNodeExists"
           /\ UNCHANGED <<registry, subsystem>>)]_vars

\* C3 witness: a first create succeeded, its handle is still stored, and a
\* second create was refused.
C3_Witness ==
  \E c, d \in Calls :
    /\ c < d
    /\ result[c] = "ok_created"
    /\ op[d] = "create_libp2p_node" /\ result[d] = "ErrNodeExists"
    /\ libp2pNode = retPeer[c]
    /\ nodeStatus = "running"

\* C4: whenever create_libp2p_node returns the creation failure, the phase is
\* Stopped and no NodeHandle is stored.
C4_FailedCreateLeavesNothing ==
  [][\A c \in Calls :
       (pc[c] = "await_startLibp2p" /\ result'[c] = "ErrCreateFailed")
       => (nodeStatus' = "stopped" /\ libp2pNode' = Null)]_vars

\* The phase changes of the state machine of the lifecycle coordinator.
AllowedTransitions ==
  { <<"stopped", "starting">>, <<"starting", "running">>, <<"starting", "stopped">>,
    <<"running", "stopping">>, <<"stopping", "stopped">> }

\* C5: every change of the node phase is one of Stopped->Starting,
\* Starting->Running, Starting->Stopped, Running->Stopping, Stopping->Stopped.
C5_PhaseStateMachine ==
  [][nodeStatus' # nodeStatus => <<nodeStatus, nodeStatus'>> \in AllowedTransitions]_vars

\* C6: a peer-management, messaging, file-sharing or monitoring command
\* invoked while no NodeHandle is stored or the phase is not Running fails
\* with the no-active-node error before any call on the subsystem.
C6_CommandsRequireRunningNode ==
  [][\A c \in Calls :
       (/\ Begins(c)
        /\ op'[c] \in GuardedOps
        /\ (libp2pNode = Null \/ nodeStatus # "running"))
       => (result'[c] = "ErrNoActiveNode" /\ ~CallsSubsystem(c))]_vars

\* C7: a stop whose shutdown call raises returns an error and changes neither
\* the phase nor the stored handle, so that, no other lifecycle command having
\* overlapped it, the phase is Stopping and the handle it was called on is
\* still stored; stop is accepted whenever a handle is stored (also in phase
\* Stopping), and a stop whose shutdown succeeds leaves phase Stopped and no
\* handle.
C7_StopFailureRecoverable ==
  [][\A c \in Calls :
       /\ (Begins(c) /\ op'[c] = "stop_libp2p_node" /\ libp2pNode # Null)
          => (/\ pc'[c] = "await_stop"
              /\ nodeStatus' = "stopping"
              /\ libp2pNode' = libp2pNode)
       /\ (pc[c] = "await_stop" /\ result'[c] = "ErrStopFailed")
          => (/\ pc'[c] = "done"
              /\ nodeStatus' = nodeStatus
              /\ libp2pNode' = libp2pNode
              /\ solo = c => (nodeStatus' = "stopping" /\ libp2pNode' = snapNode[c]))
       /\ (pc[c] = "await_stop" /\ result'[c] = "ok_stopped")
          => (nodeStatus' = "stopped" /\ libp2pNode' = Null)]_vars

\* C7 witness: a node was created, a first stop failed, and a stop issued
\* after the failure had been returned succeeded: phase Stopped and no handle.
C7_Witness ==
  \E c, d, e \in Calls :
    /\ c < d /\ d < e
    /\ result[c] = "ok_created"
    /\ result[d] = "ErrStopFailed"
    /\ result[e] = "ok_stopped"
    /\ solo = e
    /\ nodeStatus = "stopped"
    /\ libp2pNode = Null

\* C8: stop_libp2p_node invoked while no NodeHandle is stored fails with the
\* no-node precondition error and changes nothing, whatever the phase.
C8_StopWithoutNode ==
  [][\A c \in Calls :
       (Begins(c) /\ op'[c] = "stop_libp2p_node" /\ libp2pNode = Null)
       => (/\ pc'[c] = "done"
           /\ result'[c] = "ErrNoNode"
           /\ UNCHANGED <<registry, subsystem>>)]_vars

\* C8 witness: a stop was refused while a create was under way (phase
\* Starting, no handle stored yet), and the phase is still Starting.
C8_Witness ==
  \E c \in Calls :
    /\ op[c] = "stop_libp2p_node" /\ result[c] = "ErrNoNode"
    /\ nodeStatus = "starting"
    /\ libp2pNode = Null

\* C9: start_libp2p_node invoked while a NodeHandle is stored and the phase
\* is Running returns success with the stored node's identity, calls nothing
\* on the subsystem and leaves phase and handle unchanged.
C9_StartWhileRunningIsNoop ==
  [][\A c \in Calls :
       (/\ Begins(c)
        /\ op'[c] = "start_libp2p_node"
        /\ libp2pNode # Null
        /\ nodeStatus = "running")
       => (/\ pc'[c] = "done"
           /\ result'[c] = "ok_already_running"
           /\ retPeer'[c] = libp2pNode
           /\ UNCHANGED <<registry, subsystem>>)]_vars

\* C9 witness: a start returned the no-op success for the running node.
C9_Witness ==
  \E c \in Calls :
    /\ op[c] = "start_libp2p_node" /\ result[c] = "ok_already_running"
    /\ retPeer[c] = libp2pNode
    /\ libp2pNode # Null
    /\ nodeStatus = "running"

\* C10: once create_libp2p_node has returned success and until the caller's
\* next command, the registry's connection set holds every connection the
\* created node has opened and not closed since its creation.
C10_NoConnectionEventMissed ==
  \A c \in Calls :
    (/\ result[c] = "ok_created"
     /\ libp2pNode = retPeer[c]
     /\ \A d \in Calls : d < c => pc[d] = "done"
     /\ \A d \in Calls : d > c => pc[d] = "idle")
    => activeConnections = netConns[retPeer[c]]

\* Node n's listener for the event removed from pending[n] runs in this step.
Processes(n) ==
  /\ pending'[n] # pending[n]
  /\ pending'[n] \subseteq pending[n]
  /\ \A ev \in pending[n] \ pending'[n] : ev[1] \in listeners[n]

\* C11: whenever the adapter processes a connection event, whatever the order
\* of delivery, the registry's connection set becomes exactly the connection
\* list the subsystem reports at that moment; processing that list once more
\* leaves the registry as it is; and outside such a step and the shutdown of a
\* node the registry's connection set does not change.
C11_ConnectionsMirrorReportedList ==
  [][/\ \A n \in Nodes :
          Processes(n) => /\ activeConnections' = netConns[n]
                          /\ updateConnections(netConns[n]) = activeConnections'
                          /\ (activeConnections = netConns[n]
                                 => activeConnections' = activeConnections)
     /\ activeConnections' # activeConnections
          => \/ \E n \in Nodes : Processes(n)
             \/ \E c \in Calls : pc[c] = "await_stop" /\ pc'[c] = "done"]_vars

\* C11 witness: on the stored node a connection was opened, closed and opened
\* again; the second connection:open has been processed before the earlier
\* connection:close, which is still to be delivered, and the registry holds
\* the subsystem's current list.
C11_Witness ==
  \E n \in Nodes, k \in Conns :
    /\ libp2pNode = n
    /\ listeners[n] = ConnectionEvents
    /\ pending[n] = {<<"connection:close", k>>}
    /\ k \in netConns[n]
    /\ activeConnections = netConns[n]

\* A pubsub message is delivered in this step: a history changes and no call
\* takes a step.
PubsubDelivers == pc' = pc /\ messageHistory' # messageHistory

\* C12: a pubsub message delivered to the node is appended exactly once, with
\* the delivered flag false, to the history of its topic, and
\* messagesReceived grows by exactly one, however many subscribe_to_topic
\* calls were made before.
C12_DeliveredMessageAppendedOnce ==
  [][PubsubDelivers =>
       /\ \E t \in Topics :
            /\ Len(messageHistory'[t]) = Len(messageHistory[t]) + 1
            /\ messageHistory'[t][Len(messageHistory'[t])].read = FALSE
            /\ messageHistory' = [messageHistory EXCEPT
                                    ![t] = Append(@, messageHistory'[t][Len(messageHistory'[t])])]
       /\ stats'.messagesReceived = stats.messagesReceived + 1]_vars

\* The smaller of two numbers.
Min(a, b) == IF a < b THEN a ELSE b

\* C13: get_message_history with limit k on a stored history of length n
\* returns exactly its last min(k, n) messages in stored order (count =
\* min(k, n)), for every k >= 0.
C13_HistoryReturnsLastK ==
  [][\A c \in Calls :
       (Begins(c) /\ op'[c] = "get_message_history" /\ result'[c] = "ok")
       => LET topic == args'[c][1]
              stored == IF topic # "" THEN messageHistory[topic]
                                      ELSE directMessages[args'[c][2]]
              n == Len(stored)
              m == Min(args'[c][3], n)
          IN /\ retMessages'[c] = SubSeq(stored, n - m + 1, n)
             /\ Len(retMessages'[c]) = m]_vars

\* list a is an initial part of list b.
IsPrefix(a, b) == Len(a) <= Len(b) /\ SubSeq(b, 1, Len(a)) = a

\* C14: in every step the history of each topic and of each peer before the
\* step is an initial part of its history after the step.
C14_HistoriesAppendOnly ==
  [][/\ \A t \in Topics : IsPrefix(messageHistory[t], messageHistory'[t])
     /\ \A p \in RemotePeers : IsPrefix(directMessages[p], directMessages'[p])]_vars

\* C14 witness: a delivered message and then a sent one are in the history of
\* the default topic, the caller has unsubscribed again, and the node stored
\* is not the first one (the first was stopped and another created).
C14_Witness ==
  /\ Len(messageHistory[CHAT_TOPIC]) = 2
  /\ messageHistory[CHAT_TOPIC][1].read = FALSE
  /\ messageHistory[CHAT_TOPIC][2].read = TRUE
  /\ subscriptions = {}
  /\ libp2pNode \in Nodes \ {1}
  /\ nodeStatus = "running"

\* C15: no step decreases any of the four counters.
C15_CountersMonotone ==
  [][/\ stats'.messagesSent >= stats.messagesSent
     /\ stats'.messagesReceived >= stats.messagesReceived
     /\ stats'.bytesSent >= stats.bytesSent
     /\ stats'.bytesReceived >= stats.bytesReceived]_vars

\* C15 witness: all four counters have grown, and the node stored is not the
\* first one (the first was stopped and another created).
C15_Witness ==
  /\ stats.messagesSent > 0
  /\ stats.bytesSent > 0
  /\ stats.bytesReceived > 0
  /\ stats.messagesReceived > stats.messagesSent
  /\ libp2pNode \in Nodes \ {1}
  /\ nodeStatus = "running"

\* C16: file-exchange round trip.  When share_file returns a fileId, the
\* catalog holds the shared bytes under it with the node's own peer id as
\* sender and the node serves the protocol; the node's stream handler answers
\* a request for an id it holds with one frame of exactly the stored bytes and
\* closes; and request_file answered by such a handler holding a file under
\* the requested id succeeds and stores those bytes under that id with the
\* dialled peer as sender.
C16_FileExchangeRoundTrip ==
  [][/\ \A c \in Calls :
          pc[c] = "await_handle" /\ result'[c] = "ok_shared" =>
            /\ sharedFiles'[args'[c][1]] = ChatFile(args'[c][2], snapNode[c])
            /\ snapNode[c] \in handlers'
     /\ \A f \in FileIds :
          served' # served /\ served'.request = <<f>> /\ sharedFiles[f] # NoFile =>
            served'.written = <<sharedFiles[f].body>> /\ served'.end = "closed"
     /\ \A c \in Calls :
          pc[c] = "await_pipe" /\ pc'[c] = "done"
            /\ args[c][3] = "handler" /\ args[c][4] # NoFile =>
              /\ result'[c] = "ok_received"
              /\ sharedFiles'[args[c][2]] = ChatFile(args[c][4].body, args[c][1])]_vars

\* A request answered by a handler that held MaxBytes bytes has stored them
\* with the dialled peer as sender, after this node served a file of its own.
C16_Witness ==
  \E c \in Calls :
    /\ op[c] = "request_file" /\ result[c] = "ok_received"
    /\ args[c][3] = "handler"
    /\ Len(args[c][4].body) = MaxBytes
    /\ sharedFiles[args[c][2]] = ChatFile(args[c][4].body, args[c][1])
    /\ served.end = "closed" /\ served.written # <<>>

\* C17: request_file for an identifier the responder does not hold fails with
\* the stream failure that signals file-not-found, never with no-file-data;
\* request_file to a peer that closes the stream without a frame fails with
\* no-file-data, never with the stream failure; the two results differ.  On
\* the responder's side an unheld identifier fails the stream.
C17_NotFoundVersusNoData ==
  [][/\ \A c \in Calls :
          pc[c] = "await_pipe" /\ pc'[c] = "done" =>
            /\ args[c][3] = "handler" /\ args[c][4] = NoFile =>
                 result'[c] = "ErrStreamFailed"
            /\ args[c][3] = "closes" => result'[c] = "ErrNoFileData"
     /\ \A f \in RequestIds :
          served' # served /\ served'.request = <<f>>
            /\ getSharedFile(sharedFiles, f) = NoFile =>
              served'.end = "reset"]_vars

\* A request for an identifier the responder's handler did not hold has failed
\* with the stream failure.
C17_Witness ==
  \E c \in Calls :
    /\ op[c] = "request_file" /\ result[c] = "ErrStreamFailed"
    /\ args[c][3] = "handler" /\ args[c][4] = NoFile

\* C18: absence is distinguishable from a zero-length file.  request_file
\* answered by a handler that holds a file of zero bytes under the requested id
\* succeeds and stores an entry of size 0; for an identifier the handler does
\* not hold the request never succeeds and stores nothing, and the handler
\* writes no response frame, not even an empty one, and fails the stream.
C18_AbsenceIsNotZeroLength ==
  [][/\ \A c \in Calls :
          pc[c] = "await_pipe" /\ pc'[c] = "done" /\ args[c][3] = "handler" =>
            /\ args[c][4] # NoFile /\ args[c][4].body = <<>> =>
                 /\ result'[c] = "ok_received"
                 /\ sharedFiles'[args[c][2]] # NoFile
                 /\ Len(sharedFiles'[args[c][2]].body) = 0
            /\ args[c][4] = NoFile =>
                 result'[c] # "ok_received" /\ sharedFiles' = sharedFiles
     /\ \A f \in RequestIds :
          served' # served /\ served'.request = <<f>>
            /\ getSharedFile(sharedFiles, f) = NoFile =>
              served'.written = <<>> /\ served'.end = "reset"]_vars

\* A request for a file of zero bytes has succeeded and the catalog holds the
\* empty file with the dialled peer as sender.
C18_Witness ==
  \E c \in Calls :
    /\ op[c] = "request_file" /\ result[c] = "ok_received"
    /\ args[c][3] = "handler"
    /\ args[c][4] = ChatFile(<<>>, args[c][1])
    /\ sharedFiles[args[c][2]] = ChatFile(<<>>, args[c][1])

\* C19: on each inbound file-exchange stream the responder writes at most one
\* response frame, whatever further request frames the initiator sends.
C19_ResponderAnswersOneFrame == Len(served.written) <= 1

\* C20: once the catalog holds an entry for a fileId, no step changes or
\* removes it.
C20_SharedFileNeverMutated ==
  [][\A f \in FileIds : sharedFiles[f] # NoFile => sharedFiles'[f] = sharedFiles[f]]_vars

\* A request_file call for fileId f is suspended at an await.
Fetching(d, f) ==
  /\ op[d] = "request_file"
  /\ pc[d] \in {"await_dialProtocol", "await_pipe"}
  /\ args[d][2] = f

FiredAfter(n, k) == SubSeq(fired[n], k + 1, Len(fired[n]))

\* C22: a discover_peers call made while a node is stored sets its timer and
\* eventually returns; it returns success, and its list is exactly the
\* discovery events its node fired between the registration of the listener
\* and the timer, in firing order (empty when none fired).
C22_DiscoverReturnsCollected ==
  /\ [][\A c \in Calls :
          /\ Begins(c) /\ op'[c] = "discover_peers" /\ libp2pNode # Null =>
               pc'[c] = "await_timer" /\ collected'[c] = <<>>
          /\ pc[c] = "await_timer" /\ pc'[c] # pc[c] =>
               /\ pc'[c] = "done"
               /\ result'[c] = "ok_discovered"
               /\ collected'[c] = FiredAfter(snapNode[c], args[c][1])]_vars
  /\ \A c \in Calls :
       pc[c] = "await_timer" ~> (pc[c] = "done" /\ result[c] = "ok_discovered")

\* A call registered after its node had fired an event has returned the
\* events fired later, and only those.
C22_Witness ==
  \E c \in Calls :
    /\ op[c] = "discover_peers" /\ result[c] = "ok_discovered"
    /\ args[c][1] > 0
    /\ Len(collected[c]) > 0

\* C23: the discovery listeners registered on a node are exactly those of the
\* discover_peers calls still waiting for their timer, so that when all calls
\* have returned none is left; and the list of a call that has returned is
\* not changed by later events.
C23_DiscoveryListenerRemoved ==
  /\ [](\A n \in Nodes :
          discListeners[n] = {c \in Calls : pc[c] = "await_timer" /\ snapNode[c] = n})
  /\ [][\A c \in Calls :
          pc[c] = "done" /\ pc'[c] = "done" => collected'[c] = collected[c]]_vars

\* Two overlapping discover_peers calls have both returned with events, an
\* event has fired since, and no discovery listener is registered.
C23_Witness ==
  \E c, d \in Calls :
    /\ c # d
    /\ op[c] = "discover_peers" /\ op[d] = "discover_peers"
    /\ result[c] = "ok_discovered" /\ result[d] = "ok_discovered"
    /\ Len(collected[c]) > 0 /\ Len(collected[d]) > Len(collected[c])
    /\ \A n \in Nodes : discListeners[n] = {}

\* C24: unsubscribe_from_topic(t) on a stored node succeeds, leaves t out of
\* the subscription set and leaves every topic's history, that of t included,
\* as it was; get_topic_subscribers on a stored node succeeds whatever the
\* subscription set is.
C24_UnsubscribeKeepsHistory ==
  [][\A c \in Calls :
       /\ Begins(c) /\ op'[c] = "unsubscribe_from_topic" /\ libp2pNode # Null =>
            /\ result'[c] = "ok"
            /\ args'[c][1] \notin subscriptions'
            /\ subscriptions' = subscriptions \ {args'[c][1]}
            /\ messageHistory' = messageHistory
       /\ Begins(c) /\ op'[c] = "get_topic_subscribers" /\ libp2pNode # Null =>
            result'[c] = "ok" /\ UNCHANGED <<subscriptions, messageHistory>>]_vars

\* A topic that was subscribed and received a message has been unsubscribed:
\* it is out of the set and its history is still there.
C24_Witness ==
  \E c \in Calls :
    /\ op[c] = "unsubscribe_from_topic" /\ result[c] = "ok"
    /\ args[c][1] \notin subscriptions
    /\ Len(messageHistory[args[c][1]]) > 0

\* C25: while a node is running, the subscription set is the set of topics
\* the stored node is subscribed to in the publish-subscribe substrate.
C25_SubscriptionSetMatchesSubstrate ==
  nodeStatus = "running" /\ libp2pNode # Null => subscriptions = netSubs[libp2pNode]

\* C26: a copy handed out by the registry keeps, in every field, what the
\* registry held when the copy was made, whatever the registry does later.
C26_SnapshotIsImmutableCopy == snapshot.taken => SnapshotView = snapshotAt

\* C27: no error raised in a tool command or in the file-exchange responder's
\* stream handler escapes as a promise rejection nothing handles.
C27_NoErrorEscapes == ~unhandled

\* The handler of send_group_message call c holds no message.
LacksMessage(o, a) == o = "send_group_message" /\ Len(a) > 1 /\ a[2] = Undefined

\* C28: a call with an unknown tool name returns an error at once and changes
\* nothing; a call that lacks a required argument is never suspended at a call
\* of the networking subsystem and never changes a history or a counter.
C28_PreconditionErrorsBeforeNetwork ==
  [][\A c \in Calls :
       /\ Begins(c) /\ op'[c] = UnknownTool =>
            /\ pc'[c] = "done" /\ result'[c] = "ErrUnknownTool"
            /\ UNCHANGED <<registry, histories>>
       /\ Begins(c) /\ pc'[c] \in AwaitPcs => ~LacksMessage(op'[c], args'[c])
       /\ pc[c] \in AwaitPcs /\ LacksMessage(op[c], args[c]) =>
            UNCHANGED <<registry, histories>>]_vars

\* C29: a dial the adapter issues after a peer-discovered event goes to an
\* address whose transport the node was created with, and the first dial of
\* an event is issued only if the peer had no connection.
C29_DiscoveryDialOnlyWithTransport ==
  [][\A n \in Nodes :
       dialing'[n] # dialing[n] /\ dialing'[n].addrs # <<>> =>
         /\ TransportFor(Head(dialing'[n].addrs)) \in transports[n]
         /\ fired'[n] # fired[n] => ~Connected(n, dialing'[n].peer)]_vars

\* The addresses the dials of node n's last event went to, in order.
Tried(n) == [i \in 1..Len(dialLog[n]) |-> dialLog[n][i].addr]

\* C30: the discovery dial is best-effort.  The addresses of an event are
\* tried in the order the event lists them; only the last dial tried can have
\* succeeded and nothing is tried after it; a dial that fails, the last
\* address included, changes neither the registry nor any call, raises no
\* error, and leaves the node ready for the next event.
C30_DiscoveryDialBestEffort ==
  /\ [](\A n \in Nodes :
          /\ \A i \in 1..Len(dialLog[n]) : dialLog[n][i].ok => i = Len(dialLog[n])
          /\ (\E i \in 1..Len(dialLog[n]) : dialLog[n][i].ok) => dialing[n].addrs = <<>>
          /\ Len(dialLog[n]) > 0 =>
               IsPrefix(Tried(n), webRTCMadrs(fired[n][Len(fired[n])].multiaddrs))
          /\ Len(dialLog[n]) > 0 /\ ~dialLog[n][Len(dialLog[n])].ok =>
               Tried(n) \o dialing[n].addrs
                 = webRTCMadrs(fired[n][Len(fired[n])].multiaddrs))
  /\ [][\A n \in Nodes :
          Len(dialLog'[n]) > Len(dialLog[n]) /\ ~dialLog'[n][Len(dialLog'[n])].ok =>
            /\ UNCHANGED <<registry, histories, exchange, netConns, pending,
                           pc, result, unhandled, live, listeners>>
            /\ dialing'[n].addrs = Tail(dialing[n].addrs)]_vars

\* The first address of an event failed and the dial of the second succeeded.
C30_Witness ==
  \E n \in Nodes :
    /\ Len(dialLog[n]) > 1
    /\ ~dialLog[n][1].ok
    /\ dialLog[n][Len(dialLog[n])].ok
    /\ netConns[n] # {}

\* C31: in every reachable state, under any interleaving of create, start and
\* stop calls and their completions, a node handle is stored if and only if the
\* status is running or stopping.
C31_HandleStoredIffRunningOrStopping ==
  (libp2pNode # Null) <=> (nodeStatus \in {"running", "stopping"})

\* C32: provided every startLibp2p call settles, the status does not stay
\* starting for ever: every create_libp2p_node call that set the status to
\* starting is followed by a state whose status is running or stopped, and so
\* is every state whose status is starting.
C32_StartingEventuallyLeaves ==
  /\ \A c \in Calls :
       (pc[c] = "await_startLibp2p") ~> (nodeStatus \in {"running", "stopped"})
  /\ (nodeStatus = "starting") ~> (nodeStatus \in {"running", "stopped"})

\* A create call that had set the status to starting has failed and the
\* status is stopped; another has succeeded.
C32_Witness ==
  /\ nodeStatus = "stopped"
  /\ \E c, d \in Calls :
       /\ op[c] = "create_libp2p_node" /\ result[c] = "ErrCreateFailed"
       /\ op[d] = "create_libp2p_node" /\ result[d] = "ok_created"

\* Call d is a stop_libp2p_node that ran unoverlapped and returned success, and
\* no lifecycle call has taken a step since.
StoppedBy(d) ==
  solo = d /\ op[d] = "stop_libp2p_node" /\ result[d] = "ok_stopped"

\* C33: a stopped node cannot be restarted.  A start_libp2p_node issued after a
\* successful stop fails with the no-node error, calls nothing on the
\* subsystem and leaves the status stopped; and while no handle is stored and
\* no start() is pending, the status becomes running only by the completion
\* of a create_libp2p_node.
C33_StoppedNodeNotRestartable ==
  [][/\ \A c, d \in Calls :
          (StoppedBy(d) /\ Begins(c) /\ op'[c] = "start_libp2p_node")
          => (/\ pc'[c] = "done"
              /\ result'[c] = "ErrNoNode"
              /\ nodeStatus = "stopped"
              /\ UNCHANGED <<registry, subsystem>>)
     /\ (/\ libp2pNode = Null
         /\ \A d \in Calls : pc[d] # "await_start"
         /\ nodeStatus # "running"
         /\ nodeStatus' = "running")
        => \E c \in Calls :
             /\ op[c] = "create_libp2p_node"
             /\ pc[c] = "await_startLibp2p" /\ pc'[c] = "done"
             /\ libp2pNode' = built[c]]_vars

\* C33 witness: a start issued after a successful stop, with nothing else in
\* flight, was refused; the status is stopped and no handle is stored.
C33_Witness ==
  \E c, d \in Calls :
    /\ d < c
    /\ op[d] = "stop_libp2p_node" /\ result[d] = "ok_stopped"
    /\ op[c] = "start_libp2p_node" /\ result[c] = "ErrNoNode"
    /\ solo = c
    /\ \A e \in Calls : (d < e /\ e < c) => op[e] \notin {"create_libp2p_node"}
    /\ nodeStatus = "stopped"
    /\ libp2pNode = Null

\* C34: get_node_status never fails and the status field of its result is the
\* registry's status at that moment, also while a create is in progress
\* (status starting, no handle stored yet).
C34_StatusReportsPhase ==
  [][\A c \in Calls :
       (Begins(c) /\ op'[c] = "get_node_status")
       => (/\ pc'[c] = "done"
           /\ result'[c] = "ok_status"
           /\ retStatus'[c] = nodeStatus)]_vars

\* C35: share_file adds a catalog entry only when it returns success: a call
\* that fails in its first step leaves the catalog as it was, and when a call
\* fails after its await the catalog holds nothing under the identifier the
\* call had drawn.
C35_FailedShareLeavesCatalog ==
  [][\A c \in Calls :
       /\ (Begins(c) /\ op'[c] = "share_file" /\ pc'[c] = "done")
          => UNCHANGED sharedFiles
       /\ (/\ op[c] = "share_file"
           /\ pc[c] = "await_handle"
           /\ pc'[c] = "done"
           /\ result'[c] # "ok_shared")
          => sharedFiles'[args[c][1]] = NoFile]_vars

\* Call c is a request_file call taking a step.
RequestStep(c) ==
  /\ pc'[c] # pc[c]
  /\ op'[c] = "request_file"
  /\ pc'[c] # "idle"

\* C36: request_file changes the registry only on success.  The step in which
\* a call returns success stores one entry under the requested id, holding
\* the payload of the first response frame and the peer id given in the
\* request as sender, and changes nothing else; every other step of a
\* request_file call, the ones in which it fails included, leaves the catalog
\* and all other registry state as they were.
C36_RequestChangesRegistryOnlyOnSuccess ==
  [][\A c \in Calls :
       RequestStep(c) =>
         /\ UNCHANGED <<registry, messageHistory, directMessages, subscriptions, stats>>
         /\ IF result'[c] = "ok_received"
              THEN /\ pc[c] = "await_pipe"
                   /\ args[c][3] = "handler" /\ args[c][4] # NoFile
                   /\ sharedFiles' =
                        [sharedFiles EXCEPT
                           ![args[c][2]] = [body |-> args[c][4].body,
                                            sender |-> args[c][1]]]
              ELSE UNCHANGED sharedFiles]_vars

\* On a node that serves files of its own, the catalog holds a file stored by
\* a request, with the remote peer as sender, and a request that failed has
\* returned.
C36_Witness ==
  \E f \in FileIds, p \in RemotePeers :
    /\ handlers # {}
    /\ sharedFiles[f] # NoFile
    /\ sharedFiles[f].sender = p
    /\ \E d \in Calls :
         /\ op[d] = "request_file" /\ pc[d] = "done"
         /\ result[d] \in {"ErrStreamFailed", "ErrNoFileData", "ErrDialFailed"}

\* C37: a sent message is recorded only when the subsystem reports success.
\* When publish resolves, the topic's history gains the one sent message and
\* messagesSent grows by one; when the direct send resolves with true, the
\* peer's history gains the one sent message and messagesSent grows by one;
\* when publish rejects, or the direct send resolves with false or rejects,
\* and in the first step of either call, histories and counters stay as they
\* were.
C37_SentRecordedOnlyOnSuccess ==
  [][\A c \in Calls :
       /\ (Begins(c) /\ op'[c] \in {"send_group_message", "send_direct_message"})
          => UNCHANGED <<messageHistory, directMessages, stats>>
       /\ (pc[c] = "await_publish" /\ pc'[c] = "done") =>
            IF result'[c] = "ok"
              THEN /\ messageHistory' =
                        [messageHistory EXCEPT
                           ![args[c][1]] =
                              Append(@, [msg |-> args[c][2], peerId |-> snapNode[c],
                                         read |-> TRUE])]
                   /\ stats'.messagesSent = stats.messagesSent + 1
                   /\ UNCHANGED directMessages
              ELSE UNCHANGED <<messageHistory, directMessages, stats>>
       /\ (pc[c] = "await_send" /\ pc'[c] = "done") =>
            IF result'[c] = "ok"
              THEN /\ directMessages' =
                        [directMessages EXCEPT
                           ![args[c][1]] =
                              Append(@, [msg |-> args[c][2], peerId |-> snapNode[c],
                                         read |-> TRUE])]
                   /\ stats'.messagesSent = stats.messagesSent + 1
                   /\ UNCHANGED messageHistory
              ELSE UNCHANGED <<messageHistory, directMessages, stats>>]_vars

\* A group message and a direct message were sent and recorded, and a third
\* send has failed.
C37_Witness ==
  /\ stats.messagesSent = 2
  /\ \E t \in Topics : Len(messageHistory[t]) = 1
  /\ \E p \in RemotePeers : Len(directMessages[p]) = 1
  /\ \E c \in Calls :
       /\ op[c] \in {"send_group_message", "send_direct_message"}
       /\ result[c] \in {"ErrSendFailed", "ok_not_sent"}

\* C38: sending does not count as receiving: the step in which a
\* send_group_message or send_direct_message call returns leaves
\* messagesReceived and bytesReceived as they were.
C38_SendingIsNotReceiving ==
  [][\A c \in Calls :
       (pc[c] \in {"await_publish", "await_send"} /\ pc'[c] = "done")
       => /\ stats'.messagesReceived = stats.messagesReceived
          /\ stats'.bytesReceived = stats.bytesReceived]_vars

\* C39: a message delivered from the network is recorded only if its topic is
\* in the subscription set at that moment: a delivery on any other topic (one
\* unsubscribed from, or a default topic never passed to subscribe_to_topic)
\* appends to no history and changes no counter.
C39_DeliveryRecordedOnlyIfSubscribed ==
  [][/\ \A t \in Topics :
          (pc' = pc /\ messageHistory'[t] # messageHistory[t]) => t \in subscriptions
     /\ (pc' = pc /\ stats' # stats) =>
          \E t \in subscriptions : messageHistory'[t] # messageHistory[t]]_vars

\* The tools that only read, and the resource reads.
ReadOnlyOps ==
  {"get_node_status", "list_connections", "get_peer_info", "get_message_history",
   "get_topic_subscribers", "list_shared_files", "get_network_stats",
   "get_protocol_handlers", ResourceRead}

\* C40: read-only operations leave the whole registry unchanged: no step of a
\* get_node_status, list_connections, get_peer_info, get_message_history,
\* get_topic_subscribers, list_shared_files, get_network_stats or
\* get_protocol_handlers call or of a resource read, whether the call
\* succeeds or fails, changes the status, the handle, the connection set, a
\* history, the catalog, the subscription set or a counter.
C40_ReadsLeaveRegistry ==
  [][\A c \in Calls :
       (pc'[c] # pc[c] /\ pc'[c] # "idle" /\ op'[c] \in ReadOnlyOps)
       => UNCHANGED <<nodeStatus, libp2pNode, activeConnections, messageHistory,
                      directMessages, sharedFiles, subscriptions, stats>>]_vars

\* Two messages are stored on the default topic, and a get_message_history
\* call with limit 1 has returned the last of them.
C40_Witness ==
  \E c \in Calls :
    /\ op[c] = "get_message_history" /\ result[c] = "ok"
    /\ args[c][1] = CHAT_TOPIC /\ args[c][3] = 1
    /\ Len(messageHistory[CHAT_TOPIC]) = 2
    /\ retMessages[c] = <<messageHistory[CHAT_TOPIC][2]>>

====
